---------------------------- MODULE Spec2Model ----------------------------
(***************************************************************************)
(* Verification model of genro-proxy.                                      *)
(*                                                                         *)
(* Part I  (specifications Spec, SpecRu): the per-request connection       *)
(*   context of SqlDb (sql/sqldb.py), the transactional behaviour of the   *)
(*   two adapters behind it, and the RecordUpdater context of              *)
(*   sql/table.py, run by concurrent asyncio tasks.                        *)
(* Part II (specification SpecAuth): the two authentication gates of       *)
(*   interface/api_base.py, BaseEndpoint.invoke with its tenant            *)
(*   resolution, TenantsTable.get_tenant_by_token and the account          *)
(*   endpoint the requests reach.                                          *)
(* Part III (specification SpecReg): method declaration on an endpoint     *)
(*   and the route and command factories of the API and CLI channels.      *)
(* Part IV (specification SpecRec): Table.record.                          *)
(* Part V  (specification SpecDisc): discovery of table and endpoint       *)
(*   classes.                                                              *)
(* Part VI (specification SpecEnc): JSON and encrypted columns of Table    *)
(*   and the EncryptionManager.                                            *)
(* Part VII (specification SpecQb): the WhereBuilder of sql/query.py.      *)
(* Part VIII (specification SpecProc): ProxyEndpoint.stop and the          *)
(*   processes and PID files of the instances.                             *)
(* Part IX (specification SpecServe): concurrent ProxyEndpoint.serve       *)
(*   calls on one instance.                                                *)
(* Part X  (specification SpecCtx): the context resolution of CliContext.  *)
(* Part XI (specification SpecSchema): create_schema and sync_schema at    *)
(*   ProxyBase.init.                                                       *)
(* Part XII (specification SpecInv): the steps of BaseEndpoint.invoke.     *)
(* Part XIII (specification SpecTrig): the triggers around the storage     *)
(*   calls of Table and Query.                                             *)
(* Part XIV (specification SpecBatch): batch suspension of a tenant.       *)
(***************************************************************************)
EXTENDS Integers, Sequences, FiniteSets, TLC

(***************************************************************************)
(* Bounds of the model.                                                    *)
(***************************************************************************)
NumTasks == 2
MaxConns == 2
MaxWrites == 2
MaxDepth == 2

Tasks == 1..NumTasks
Conns == 1..MaxConns
Keys == {1, 2}
Cols == {"id", "a", "b"}
DataCols == {"a", "b"}

\* Python's None / empty dict: both are falsy, `if not record` tests this.
EmptyRec == [x \in {} |-> 0]

Truthy(rec) == DOMAIN rec # {}

Backends == {"sqlite", "postgresql"}

VARIABLES
    backend,        \* which adapter get_adapter() built
    committed,      \* the database as a fresh connection sees it: key -> row
    connState,      \* connection -> "unused" | "open" | "released"
    owner,          \* connection -> task whose acquire() returned it (0: none)
    pending,        \* connection -> key -> uncommitted row written on it
    lockHolder,     \* key -> connection holding the backend's write lock (0)
    hist,           \* connection -> what its connection() context did
    current_conn,   \* task -> value of the ContextVar _current_conn (0: None)
    frames,         \* task -> stack of running connection() generators
    pc,             \* task -> position inside the innermost connection()
    exc,            \* task -> exception in flight in the task
    ru,             \* task -> the RecordUpdater the task has open
    lastCall,       \* the call made outside any connection context by the last step
    ruDone          \* the RecordUpdater exit made by the last step

connVars == <<backend, committed, connState, owner, pending, lockHolder, hist,
              current_conn, frames, pc, exc, ru, lastCall, ruDone>>

VARIABLES
    proxy,          \* the module global _proxy of api_base is set
    expected,       \* app.state.api_token: the configured admin token, or None
    tenants,        \* the tenants table: tenant id -> row
    issued,         \* API keys secrets.token_urlsafe has returned so far
    accounts,       \* the accounts table: set of (tenant_id, id) rows
    now,            \* int(time.time())
    resp            \* the last HTTP request and the response it got

authVars == <<proxy, expected, tenants, issued, accounts, now, resp>>

VARIABLES
    methods,        \* method name -> how the endpoint class declares it
    class_default,  \* the endpoint class's _default_api/_cli/_post
    routes,         \* routes added to the API router: <<verb, path>>
    commands,       \* subcommands added to the endpoint's Click group
    registered      \* which channel factories have run on the endpoint

regVars == <<methods, class_default, routes, commands, registered>>

VARIABLES
    tbl,            \* rows of a table in storage order: <<column value, id>>
    recCall         \* the last Table.record call and its result

recVars == <<tbl, recCall>>

VARIABLES
    tables,         \* SqlDb.tables: class registered under the one table name
    endpoints,      \* EndpointManager._endpoints: class of the endpoint
    seen,           \* registry -> classes contributed so far, first seen first
    discovers       \* registry -> number of discover calls made

discVars == <<tables, endpoints, seen, discovers>>

VARIABLES
    encryption_key, \* SqlDb.encryption_key: the proxy's key or None
    written,        \* the records given to Table.insert
    stored,         \* the rows as the database holds them
    readBack,       \* the last Table.select and what it returned or raised
    environ,        \* content of the encryption key environment variable
    secrets_file,   \* content of /run/secrets/encryption_key
    manager_key,    \* EncryptionManager._key
    encCall         \* the last EncryptionManager.encrypt/decrypt call

encVars == <<encryption_key, written, stored, readBack, environ, secrets_file,
             manager_key, encCall>>

VARIABLES
    built           \* the last WhereBuilder.build call and what it produced

qbVars == <<built>>

VARIABLES
    alive,          \* instance -> its server process exists
    pid_file,       \* instance -> its server.pid file exists
    stopCall        \* the ProxyEndpoint.stop call in progress or just ended

procVars == <<alive, pid_file, stopCall>>

VARIABLES
    serveCalls,     \* caller -> its ProxyEndpoint.serve call on the instance
    children,       \* spawned process -> how far its start has come
    pidOwner        \* the process server.pid names, 0 when there is no file

serveVars == <<serveCalls, children, pidOwner>>

VARIABLES
    ctx             \* the last require_context call, its inputs and outcome

ctxVars == <<ctx>>

VARIABLES
    declared,       \* the columns Table.configure() declares, the key included
    dbTable,        \* the table as the database has it: exists, columns
    dbRows,         \* its rows: id -> column -> value, 0 for NULL
    initLog         \* the last ProxyBase.init: what it found and whether it raised

schemaVars == <<declared, dbTable, dbRows, initLog>>

VARIABLES
    inv             \* an invoke call: its arguments, where it is, what it did

invVars == <<inv>>

VARIABLES
    table_rows,     \* the committed rows of a table: id -> row
    last_op              \* the last insert, update or delete and what it did

trigVars == <<table_rows, last_op>>

VARIABLES
    suspended_batches,  \* tenant -> the stored suspended_batches value
    batchCall           \* the last suspend / activate / is-suspended call

batchVars == <<suspended_batches, batchCall>>

vars ==
    <<connVars, authVars, regVars, recVars, discVars, encVars, qbVars,
      procVars, serveVars, ctxVars, schemaVars, invVars, trigVars,
      batchVars>>

\* Variables of the other parts of the model, untouched by each part.
nonConnVars ==
    <<authVars, regVars, recVars, discVars, encVars, qbVars, procVars,
      serveVars, ctxVars, schemaVars, invVars, trigVars, batchVars>>
nonAuthVars ==
    <<connVars, regVars, recVars, discVars, encVars, qbVars, procVars,
      serveVars, ctxVars, schemaVars, invVars, trigVars, batchVars>>
nonRegVars ==
    <<connVars, authVars, recVars, discVars, encVars, qbVars, procVars,
      serveVars, ctxVars, schemaVars, invVars, trigVars, batchVars>>
nonRecVars ==
    <<connVars, authVars, regVars, discVars, encVars, qbVars, procVars,
      serveVars, ctxVars, schemaVars, invVars, trigVars, batchVars>>
nonDiscVars ==
    <<connVars, authVars, regVars, recVars, encVars, qbVars, procVars,
      serveVars, ctxVars, schemaVars, invVars, trigVars, batchVars>>
nonEncVars ==
    <<connVars, authVars, regVars, recVars, discVars, qbVars, procVars,
      serveVars, ctxVars, schemaVars, invVars, trigVars, batchVars>>
nonQbVars ==
    <<connVars, authVars, regVars, recVars, discVars, encVars, procVars,
      serveVars, ctxVars, schemaVars, invVars, trigVars, batchVars>>
nonProcVars ==
    <<connVars, authVars, regVars, recVars, discVars, encVars, qbVars,
      serveVars, ctxVars, schemaVars, invVars, trigVars, batchVars>>
nonServeVars ==
    <<connVars, authVars, regVars, recVars, discVars, encVars, qbVars,
      procVars, ctxVars, schemaVars, invVars, trigVars, batchVars>>
nonCtxVars ==
    <<connVars, authVars, regVars, recVars, discVars, encVars, qbVars,
      procVars, serveVars, schemaVars, invVars, trigVars, batchVars>>
nonSchemaVars ==
    <<connVars, authVars, regVars, recVars, discVars, encVars, qbVars,
      procVars, serveVars, ctxVars, invVars, trigVars, batchVars>>
nonInvVars ==
    <<connVars, authVars, regVars, recVars, discVars, encVars, qbVars,
      procVars, serveVars, ctxVars, schemaVars, trigVars, batchVars>>
nonTrigVars ==
    <<connVars, authVars, regVars, recVars, discVars, encVars, qbVars,
      procVars, serveVars, ctxVars, schemaVars, invVars, batchVars>>
nonBatchVars ==
    <<connVars, authVars, regVars, recVars, discVars, encVars, qbVars,
      procVars, serveVars, ctxVars, schemaVars, invVars, trigVars>>

-----------------------------------------------------------------------------
(***************************************************************************)
(* Adapters.                                                               *)
(***************************************************************************)

\* A backend adapter that inherits the empty clause of the base class.
for_update_clause_base_only(b) == ""

\* DbAdapter.for_update_clause / PostgresAdapter.for_update_clause
for_update_clause(b) == IF b = "postgresql" THEN " FOR UPDATE" ELSE ""

\* The keys a write to key k locks until the transaction ends: SQLite takes
\* the database write lock, PostgreSQL the row lock.
WriteLockSet(b, k) == IF b = "sqlite" THEN Keys ELSE {k}

LockFree(c, S) == \A k \in S : lockHolder[k] \in {0, c}

TakeLocks(c, S) == [k \in Keys |-> IF k \in S THEN c ELSE lockHolder[k]]

DropLocks(c) == [k \in Keys |-> IF lockHolder[k] = c THEN 0 ELSE lockHolder[k]]

NoPending == [k \in Keys |-> EmptyRec]

\* What a statement executed on connection c reads for key k: its own
\* uncommitted write if any, otherwise the committed row.
View(c, k) == IF Truthy(pending[c][k]) THEN pending[c][k] ELSE committed[k]

\* adapter.commit(conn): the connection's writes become visible to all.
adapter_commit(c) ==
    [k \in Keys |-> IF Truthy(pending[c][k]) THEN pending[c][k] ELSE committed[k]]

\* A rollback that calls conn.commit(), as the method next to it does.
adapter_rollback_commits(c) == adapter_commit(c)

\* adapter.rollback(conn): the connection's writes are dropped.
adapter_rollback(c) == committed

\* adapter.release(conn): SqliteAdapter closes the connection and
\* PostgresAdapter returns it to the pool; an open transaction is discarded.
adapter_release(c) == committed

\* INSERT INTO t (cols) VALUES (...): unlisted columns take their default.
sql_insert(values) ==
    [x \in Cols |-> IF x \in DOMAIN values THEN values[x] ELSE 0]

\* UPDATE t SET col = val, ... WHERE key: listed columns are overwritten.
sql_update(row, values) ==
    [x \in Cols |-> IF x \in DOMAIN values THEN values[x] ELSE row[x]]

-----------------------------------------------------------------------------
(***************************************************************************)
(* SqlDb: the task-local current connection.                               *)
(***************************************************************************)

\* A module-level global in place of the ContextVar: every task sees it.
ContextVar_set_global(t, c) == [x \in Tasks |-> c]

\* _current_conn.set(conn) run by task t: a ContextVar is per task.
ContextVar_set(t, c) == [current_conn EXCEPT ![t] = c]

\* _current_conn.reset(token) run by task t: back to the value saved in token.
ContextVar_reset(t, token) == [current_conn EXCEPT ![t] = token]

\* SqlDb.conn: the current connection of the running task; 0 (None) raises.
SqlDb_conn(t) == current_conn[t]

\* What the RecordUpdater that has just exited was asked, found and did.
NoRuLog == [insert_missing |-> FALSE, ignore_missing |-> FALSE, raw |-> FALSE,
            absent |-> FALSE, exit |-> "none", write |-> "none",
            triggers |-> FALSE]

NoHist == [body |-> "none", commits |-> 0, rollbacks |-> 0, releases |-> 0,
           writes |-> 0, rus |-> 0, outcome |-> "none",
           propagated |-> "none", staleWrite |-> FALSE, for_update |-> FALSE,
           ruKey |-> 0]

NoRu == [phase |-> "none", key |-> 0, record |-> EmptyRec,
         old_record |-> EmptyRec, is_insert |-> FALSE, raw |-> FALSE,
         insert_missing |-> FALSE, ignore_missing |-> FALSE]

NoCall == [task |-> 0, op |-> "none", outcome |-> "none"]

Unused == {c \in Conns : connState[c] = "unused"}

NextConn == CHOOSE c \in Unused : \A d \in Unused : c <= d

Top(t) == frames[t][Len(frames[t])]

(***************************************************************************)
(* Data of the authentication layer.                                       *)
(***************************************************************************)
MaxNow == 3

TenantIds == {"t1", "t2"}
AccountIds == {"main"}

\* Python's None, where the other values are strings.
None == "None"

\* The configured admin token, the keys token_urlsafe can return, and a
\* token nobody issued; NoToken is a request without the X-API-Token header.
AdminToken == "adm"
TenantKeys == {"k1", "k2"}
NoToken == ""
Presented == {NoToken, AdminToken, "bad"} \cup TenantKeys

\* hashlib.sha256(api_key.encode()).hexdigest(): injective, never the key.
sha256(api_key) == <<"sha256", api_key>>

\* A nullable integer column (api_key_expires_at).
PyNone == [isNone |-> TRUE, value |-> 0]
PyInt(n) == [isNone |-> FALSE, value |-> n]
\* Truth value of `expires_at` in `if expires_at and ...`.
PyTruthy(e) == ~e.isNone /\ e.value # 0

\* Expiries given to create_api_key: none, the epoch, and a time the clock
\* reaches and passes.
Expiries == {PyNone, PyInt(0), PyInt(MaxNow - 1)}

NoTenant == [exists |-> FALSE, api_key_hash |-> sha256(NoToken),
             api_key_expires_at |-> PyNone]

\* The parameter map of a request: tenant_id may be absent.
Absent == "absent"
Params == [tenant_id : TenantIds \cup {Absent}, id : AccountIds]
Methods == {"add", "get"}

NoResp == [route |-> "none", token |-> NoToken, method |-> "none",
           params |-> [tenant_id |-> Absent, id |-> "main"],
           status |-> 0, is_admin |-> FALSE, looked_up |-> FALSE,
           tenant |-> None, executed |-> FALSE, tenant_id |-> None,
           raised |-> "not_invoked", body |-> "none"]

(***************************************************************************)
(* Data of the channel factories.                                          *)
(***************************************************************************)
\* Methods an endpoint subclass may declare, next to two async methods every
\* BaseEndpoint has: invoke (public, in _internal_methods) and the private
\* _resolve_tenant_from_token.
UserMethods == {"list", "get_stats"}
MethodNames == UserMethods \cup {"invoke", "_resolve_tenant_from_token"}

\* A per-method axis set by @endpoint(...): unset falls back to the class.
Axis == {"unset", "on", "off"}

Undeclared == [defined |-> FALSE, is_async |-> FALSE, api |-> "unset",
               cli |-> "unset", post |-> "unset"]
Inherited == [defined |-> TRUE, is_async |-> TRUE, api |-> "unset",
              cli |-> "unset", post |-> "unset"]

\* str.startswith("_") and str.replace("_", "-") on the method names.
startswith_underscore(name) == name = "_resolve_tenant_from_token"
replace_underscore(name) ==
    CASE name = "get_stats" -> "get-stats"
      [] name = "_resolve_tenant_from_token" -> "-resolve-tenant-from-token"
      [] OTHER -> name

(***************************************************************************)
(* Data of Table.record.                                                   *)
(***************************************************************************)
MaxRows == 3

\* Values of the column a `where` tests, and the rows' identities.
ColValues == {"x", "y"}

NoRecCall == [where |-> "none", ignore_missing |-> FALSE,
              ignore_duplicate |-> FALSE, for_update |-> FALSE,
              raw |-> FALSE, result |-> "none", row |-> 0, decoded |-> FALSE]

(***************************************************************************)
(* Data of entity discovery.                                               *)
(***************************************************************************)
MaxDiscover == 2
MaxScan == 2

\* Classes packages contribute under one entity name: Derived extends Base,
\* Other extends neither.
Classes == {"Base", "Derived", "Other"}
NoClass == "none"

\* The scan orders one discover call can meet: its packages' classes,
\* without repetition.
Scans == {sc \in UNION {[1..n -> Classes] : n \in 1..MaxScan} :
            \A i, j \in DOMAIN sc : i # j => sc[i] # sc[j]}

\* Data of Table's column encoding and of the EncryptionManager.  A Python
\* value is a type tag with a text: the text of a str, or the identity of a
\* dict.  A text is a sequence of tokens, so that a prefix, a quoted payload
\* and an encrypted payload can be told apart.
MaxStored == 1
NoneV == [type |-> "none", s |-> <<>>]
StrV(s) == [type |-> "str", s |-> s]
DictV(d) == [type |-> "dict", s |-> <<d>>]

\* ENCRYPTED_PREFIX, encryption.py line 36
ENCRYPTED_PREFIX == "ENC:"

\* The 32-byte keys: the one the environment variable holds and the one the
\* secrets file holds; NoKey is Python's None.
EnvKey == "k1"
FileKey == "k2"
NoKey == "None"

\* What the environment variable and the secrets file may hold: nothing, a
\* key of KEY_SIZE bytes, a key of another size, text that is not base64.
EnvValues == {"", "key32", "key16", "garbage"}
FileValues == {"", "key32", "key16"}

\* columns.json_columns() and columns.encrypted_columns() of a table with a
\* JSON column, an encrypted column (accounts.password) and a column that
\* is both (storages.config).
Columns == {"meta", "password", "config"}
json_columns == {"meta", "config"}
encrypted_columns == {"password", "config"}

\* Values a caller writes: a structured value or None in a JSON column, a
\* str or None in the encrypted str column; one str begins with the prefix.
JsonValues == {NoneV, DictV("d1"), StrV(<<"a">>)}
SecretValues ==
    {NoneV, StrV(<<>>), StrV(<<"a">>), StrV(<<ENCRYPTED_PREFIX, "a">>)}
Records == {r \in [Columns -> JsonValues \cup SecretValues] :
              /\ r["meta"] \in JsonValues
              /\ r["config"] \in JsonValues
              /\ r["password"] \in SecretValues}

NoRead == [done |-> FALSE, raised |-> "none", rows |-> <<>>]
NoEncCall == [op |-> "none", arg |-> <<>>, raised |-> "none", result |-> <<>>]

\* Texts handed to EncryptionManager.encrypt and .decrypt.
Texts == {<<>>, <<"a">>, <<ENCRYPTED_PREFIX, EnvKey, "a">>}

\* Data of the query builder.  SQL text is a sequence of tokens: a literal,
\* a reference $name of an expression, or a placeholder of a generated
\* parameter (c_<name>, c_<name>_<i>, c_<name>_low, c_<name>_high, w_<col>)
\* or of an external parameter.
MaxList == 3
lit(s) == [k |-> "lit", name |-> s, i |-> 0]
ref(n) == [k |-> "ref", name |-> n, i |-> 0]
placeholder(kind, n, i) == [k |-> kind, name |-> n, i |-> i]

\* WhereBuilder.OPERATORS, query.py lines 63-69
OPERATORS == {"=", "!=", "<>", "<", ">", "<=", ">=",
              "LIKE", "ILIKE", "NOT LIKE", "NOT ILIKE",
              "IN", "NOT IN", "IS NULL", "IS NOT NULL", "BETWEEN"}

\* The operators callers write, one in lower case and one outside the set.
Ops == {"=", "NOT IN", "in", "BETWEEN", "IS NULL", "UNKNOWN"}

\* str.upper on the operators above.
upper(op) == IF op = "in" THEN "IN" ELSE op

\* Values of a predicate: a list of 0..MaxList elements, a scalar, or the
\* ":name" form that refers to an external parameter.
QValues == {[type |-> "list", len |-> n] : n \in {0, 2, MaxList}}
             \cup {[type |-> "scalar", len |-> 0], [type |-> "param", len |-> 0]}

\* A named predicate {column, op, value}; Undefined is what conditions.get
\* returns for a name that is absent or bound to an empty dict.
Predicates ==
    {p \in [column : {"col"}, op : Ops, value : QValues] :
        /\ p.op \in {"IS NULL", "UNKNOWN"} => p.value.type = "scalar"
        /\ p.op = "=" => p.value.type # "list"
        /\ p.op # "=" => p.value.type # "param"
        /\ p.op = "BETWEEN" => p.value.len \in {2, MaxList}
        /\ p.op # "BETWEEN" => p.value.len # MaxList
        /\ p.op = "NOT IN" => p.value = [type |-> "list", len |-> 0]}
Undefined == [column |-> "", op |-> "", value |-> [type |-> "scalar", len |-> 0]]

\* Names predicates are registered under, and names expressions refer to.
CondNames == {"a", "b"}
Expressions == {<<ref("a")>>,
                <<lit("NOT"), ref("b")>>,
                <<ref("a"), lit("AND"), ref("b")>>,
                <<ref("a"), lit("AND"), ref("c")>>,
                <<lit("1"), lit("="), lit("1")>>}

\* The where argument: None, a simple equality dict, or an expression.
Wheres == {[kind |-> "none", cols |-> {}, expr |-> <<>>],
           [kind |-> "dict", cols |-> {}, expr |-> <<>>],
           [kind |-> "dict", cols |-> {"col"}, expr |-> <<>>]}
            \cup {[kind |-> "expr", cols |-> {}, expr |-> e] : e \in Expressions}

NoBuild == [done |-> FALSE, where |-> [kind |-> "none", cols |-> {}, expr |-> <<>>],
            conditions |-> [n \in CondNames |-> Undefined],
            raised |-> "none", sql |-> <<>>, params |-> {}, rendered |-> <<>>]

\* Data of instance process management.
Instances == {"inst1", "inst2"}

\* instances.sort(key=lambda x: x["name"]) in list_instances
SortedInstances == <<"inst1", "inst2">>

\* timeout=5.0, time.sleep(0.1), time.sleep(0.5), in milliseconds
timeout_ms == 5000
poll_ms == 100
escalation_wait_ms == 500

\* iterations = int(timeout / 0.1)
iterations == timeout_ms \div poll_ms

NotConfirmed == 0 - 1

NoStop == [pc |-> "idle", name |-> "", force |-> FALSE, ok |-> TRUE,
           listed |-> {}, todo |-> <<>>, cur |-> "", polls |-> 0,
           attempted |-> {},
           sent |-> [i \in Instances |-> <<>>],
           confirmed_at |-> [i \in Instances |-> NotConfirmed],
           stopped |-> {}]

\* Data of concurrent serve calls on one instance.
NumCallers == 2
MaxSpawn == 2
Callers == 1..NumCallers
Children == 1..MaxSpawn

\* for _ in range(20): the rounds serve waits for the PID file
startup_polls == 20

NoServe == [pc |-> "idle", background |-> FALSE, polls |-> 0,
            result |-> "none", spawned |-> 0]

\* Data of CLI context resolution.  A name is a str, "" standing for both
\* None and the empty str (the code tests truthiness only); the content of
\* the .current file is a sequence of tokens with "/" as the separator.
Unset == ""
ExplicitInstances == {Unset, "x_inst"}
ExplicitTenants == {Unset, "x_ten"}
EnvInstances == {Unset, "e_inst"}
EnvTenants == {Unset, "e_ten"}
NoFile == <<"absent">>
CurrentFiles == {NoFile, <<>>, <<"c_inst">>, <<"c_inst", "/", "c_ten">>,
                 <<"/", "c_ten">>, <<"c_inst", "/">>}
InstanceDirs == {{}, {"only"}, {"only", "other"}}

NoCtx == [done |-> FALSE, explicit_instance |-> Unset,
          explicit_tenant |-> Unset, env_instance |-> Unset,
          env_tenant |-> Unset, current |-> NoFile, instances |-> {},
          require_tenant |-> FALSE, instance |-> Unset, tenant |-> Unset,
          exit_code |-> 0]

\* Data of schema creation and sync.
MaxSchemaRows == 2
SchemaCols == {"id", "a", "b", "c"}
LaterCols == {"b", "c"}
SchemaIds == 1..MaxSchemaRows
NoTable == [exists |-> FALSE, columns |-> {}]
NoInit == [done |-> FALSE, raised |-> "none", declared |-> {},
           table_before |-> NoTable,
           rows_before |-> [i \in {} |-> 0]]

\* Data of the steps of invoke.  The target method takes a required str
\* id, a required tenant_id and a dict data; a value is described by what
\* validation makes of it.
InvokeNames == {"add", "no_such_method"}
InvokeTokens == {"none", "tenant_token", "unknown_token"}
IdValues == {"absent", "str", "not_a_str"}
TenantIdValues == {"absent", "t1"}
DataValues == {"dict", "json_text", "plain_text"}
InvokeParams == [id : IdValues, tenant_id : TenantIdValues, data : DataValues]
NoInvoke == [pc |-> "idle", method_name |-> "add", api_token |-> "none",
             is_admin |-> FALSE,
             params |-> [id |-> "absent", tenant_id |-> "absent",
                         data |-> "dict"],
             raised |-> "none", trace |-> <<>>]

\* Data of the trigger part: a table with primary key id and columns grp,
\* val.  Stamp is the value a mutating before-trigger writes into val.
MaxTrigRows == 2
TrigIds == 1..MaxTrigRows
RowGroups == {"x", "y"}
RowVals == {"v"}
Stamp == "stamped"
NoRow == [grp |-> "", val |-> ""]
BeforeTriggers == {"pass", "mutate", "raise"}
AfterTriggers == {"pass", "raise"}
ScanOrders == {"asc", "desc"}
Limits == {0, 1}
NoOp == [kind |-> "none", raw |-> FALSE, id |-> 0, grp |-> "x", limit |-> 0,
         before |-> "pass", trace |-> <<>>, raised |-> "none", result |-> 0]

\* Data of the batch suspension part.  A string is the sequence of its
\* characters; None is NoneV.
BatchTenants == {"t1", "t2"}
BatchCodes == {NoneV, StrV(<<>>), StrV(<<"a">>), StrV(<<"b">>), StrV(<<"*">>),
               StrV(<<"a", ",", "b">>)}
NoBatchCall == [op |-> "none", tenant_id |-> "t1", batch_code |-> NoneV,
                result |-> FALSE]

Init ==
    /\ backend \in Backends
    /\ committed = [k \in Keys |->
                      IF k = 1 THEN [x \in Cols |-> IF x = "id" THEN 1 ELSE 0]
                      ELSE EmptyRec]
    /\ connState = [c \in Conns |-> "unused"]
    /\ owner = [c \in Conns |-> 0]
    /\ pending = [c \in Conns |-> NoPending]
    /\ lockHolder = [k \in Keys |-> 0]
    /\ hist = [c \in Conns |-> NoHist]
    /\ current_conn = [t \in Tasks |-> 0]
    /\ frames = [t \in Tasks |-> <<>>]
    /\ pc = [t \in Tasks |-> "idle"]
    /\ exc = [t \in Tasks |-> "none"]
    /\ ru = [t \in Tasks |-> NoRu]
    /\ lastCall = NoCall
    /\ ruDone = NoRuLog
    /\ proxy = FALSE
    /\ expected = None
    /\ tenants = [tid \in TenantIds |-> NoTenant]
    /\ issued = {}
    /\ accounts = {}
    /\ now = 1
    /\ resp = NoResp
    /\ methods = [n \in MethodNames |->
                    IF n \in UserMethods THEN Undeclared ELSE Inherited]
    /\ class_default = [api |-> TRUE, cli |-> TRUE, post |-> FALSE]
    /\ routes = {}
    /\ commands = {}
    /\ registered = {}
    /\ tbl = <<>>
    /\ recCall = NoRecCall
    /\ tables = NoClass
    /\ endpoints = NoClass
    /\ seen = [r \in {"tables", "endpoints"} |-> <<>>]
    /\ discovers = [r \in {"tables", "endpoints"} |-> 0]
    /\ encryption_key = NoKey
    /\ written = <<>>
    /\ stored = <<>>
    /\ readBack = NoRead
    /\ environ = ""
    /\ secrets_file = ""
    /\ manager_key = NoKey
    /\ encCall = NoEncCall
    /\ built = NoBuild
    /\ alive = [i \in Instances |-> FALSE]
    /\ pid_file = [i \in Instances |-> FALSE]
    /\ stopCall = NoStop
    /\ serveCalls = [c \in Callers |-> NoServe]
    /\ children = [k \in Children |-> "none"]
    /\ pidOwner = 0
    /\ ctx = NoCtx
    /\ declared = {"id", "a"}
    /\ dbTable = NoTable
    /\ dbRows = [i \in {} |-> 0]
    /\ initLog = NoInit
    /\ inv = NoInvoke
    /\ table_rows = [i \in TrigIds |-> NoRow]
    /\ last_op = NoOp
    /\ suspended_batches = [t \in BatchTenants |-> NoneV]
    /\ batchCall = NoBatchCall

-----------------------------------------------------------------------------
(***************************************************************************)
(* SqlDb.connection(), sqldb.py lines 118-128.                             *)
(***************************************************************************)

\* conn = await adapter.acquire(); token = _current_conn.set(conn); yield
connection_enter(t) ==
    /\ pc[t] \in {"idle", "body"}
    /\ ru[t].phase = "none"
    /\ Len(frames[t]) < MaxDepth
    /\ Unused # {}
    /\ LET c == NextConn IN
        /\ connState' = [connState EXCEPT ![c] = "open"]
        /\ owner' = [owner EXCEPT ![c] = t]
        /\ frames' = [frames EXCEPT ![t] =
                        Append(@, [conn |-> c, token |-> current_conn[t]])]
        /\ current_conn' = ContextVar_set(t, c)
        /\ hist' = [hist EXCEPT ![c].body = "running"]
    /\ pc' = [pc EXCEPT ![t] = "body"]
    /\ UNCHANGED <<backend, committed, pending, lockHolder, exc, ru>>
    /\ lastCall' = NoCall
    /\ ruDone' = NoRuLog
    /\ UNCHANGED nonConnVars


\* The request a task is serving is identified by the connection its
\* innermost connection() acquired (the generator's local `conn`).
Req(t) == Top(t).conn

\* A try statement without the except clause: no exception rolls back.
Handler_no_except(e) == "finally"

\* The clause of the try statement of connection() that receives exception
\* e: `except Exception` (line 123) takes Exception subclasses only, and
\* asyncio.CancelledError derives from BaseException.
Handler(e) == IF e = "Exception" THEN "rollback" ELSE "finally"

\* SqlDb.insert / SqlDb.update (lines 276-336) called by the body: one
\* statement executed through SqlDb.execute on SqlDb.conn.
SqlDb_write(t, k) ==
    /\ pc[t] = "body"
    /\ ru[t].phase = "none"
    /\ LET c == SqlDb_conn(t)
           r == Req(t)
           S == WriteLockSet(backend, k)
       IN
        /\ c # 0
        /\ hist[r].writes < MaxWrites
        /\ LockFree(c, S)
        /\ pending' = [pending EXCEPT ![c][k] =
              IF Truthy(View(c, k))
              THEN sql_update(View(c, k), [x \in {"a"} |-> r])
              ELSE sql_insert([x \in {"id", "a"} |-> IF x = "id" THEN k ELSE r])]
        /\ lockHolder' = TakeLocks(c, S)
        /\ hist' = [hist EXCEPT ![r].writes = @ + 1]
    /\ UNCHANGED <<backend, committed, connState, owner, current_conn, frames,
                   pc, exc, ru>>
    /\ lastCall' = NoCall
    /\ ruDone' = NoRuLog
    /\ UNCHANGED nonConnVars

\* RecordUpdater.__aenter__ (table.py lines 112-138), reached through
\* Table.record_to_update; Table.record reads through select_for_update
\* (lines 526-548) when for_update is set and through SqlDb.select otherwise.
RecordUpdater_aenter(t, k, insert_missing, ignore_missing, for_update, raw) ==
    /\ pc[t] = "body"
    /\ ru[t].phase = "none"
    /\ LET c == SqlDb_conn(t)
           r == Req(t)
           locking == for_update /\ for_update_clause(backend) # ""
                      /\ Truthy(View(c, k))
           old == View(c, k)
       IN
        /\ c # 0
        /\ hist[r].rus < 1
        /\ locking => LockFree(c, {k})
        /\ lockHolder' = IF locking THEN TakeLocks(c, {k}) ELSE lockHolder
        /\ ru' = [ru EXCEPT ![t] =
              [phase |-> "open", key |-> k,
               record |-> IF Truthy(old) THEN old
                          ELSE IF insert_missing THEN [x \in {"id"} |-> k]
                          ELSE EmptyRec,
               old_record |-> old,
               is_insert |-> ~Truthy(old) /\ insert_missing,
               raw |-> raw,
               insert_missing |-> insert_missing,
               ignore_missing |-> ignore_missing]]
        /\ hist' = [hist EXCEPT ![r].rus = @ + 1, ![r].for_update = for_update,
                                ![r].ruKey = k]
    /\ UNCHANGED <<backend, committed, connState, owner, pending, current_conn,
                   frames, pc, exc>>
    /\ lastCall' = NoCall
    /\ ruDone' = NoRuLog
    /\ UNCHANGED nonConnVars

\* The body of `async with table.record_to_update(...) as rec`: rec[col] = v.
RecordUpdater_mutate(t, col) ==
    /\ pc[t] = "body"
    /\ ru[t].phase = "open"
    /\ LET rec == ru[t].record
           r == Req(t)
       IN
        /\ ~(col \in DOMAIN rec /\ rec[col] = r)
        /\ ru' = [ru EXCEPT ![t].record =
              [x \in DOMAIN rec \cup {col} |-> IF x = col THEN r ELSE rec[x]]]
    /\ UNCHANGED <<backend, committed, connState, owner, pending, lockHolder,
                   hist, current_conn, frames, pc, exc>>
    /\ lastCall' = NoCall
    /\ ruDone' = NoRuLog
    /\ UNCHANGED nonConnVars

\* __aexit__ writing whatever the body's outcome.
aexit_write_ignoring_exc(exc_type, record, is_insert, old_record) ==
    IF ~Truthy(record) THEN "none"
    ELSE IF is_insert THEN "insert"
    ELSE IF Truthy(old_record) THEN "update"
    ELSE "none"

\* The write RecordUpdater.__aexit__ issues (table.py lines 140-150): none
\* when the body raised or the record is empty, Table.insert for a seeded
\* record, Table.update when a row was read on entry, none otherwise.
aexit_write(exc_type, record, is_insert, old_record) ==
    IF exc_type # "none" THEN "none"
    ELSE IF ~Truthy(record) THEN "none"
    ELSE IF is_insert THEN "insert"
    ELSE IF Truthy(old_record) THEN "update"
    ELSE "none"

\* RecordUpdater.__aexit__ without exception (table.py lines 140-150):
\* nothing for an empty record; Table.insert for a seeded record (a row that
\* exists by now violates the key's uniqueness and raises); Table.update with
\* the whole record when a row was read on entry; nothing otherwise.
RecordUpdater_aexit(t) ==
    /\ pc[t] = "body"
    /\ ru[t].phase = "open"
    /\ LET c == SqlDb_conn(t)
           r == Req(t)
           k == ru[t].key
           rec == ru[t].record
           S == WriteLockSet(backend, k)
           kind == aexit_write("none", rec, ru[t].is_insert, ru[t].old_record)
           writes == kind # "none"
           dup == kind = "insert" /\ Truthy(View(c, k))
       IN
        /\ c # 0
        /\ writes => LockFree(c, S)
        /\ lockHolder' = IF writes THEN TakeLocks(c, S) ELSE lockHolder
        /\ pending' =
              IF ~writes \/ dup THEN pending
              ELSE IF ru[t].is_insert
                   THEN [pending EXCEPT ![c][k] = sql_insert(rec)]
                   ELSE [pending EXCEPT ![c][k] = sql_update(View(c, k), rec)]
        /\ hist' = [hist EXCEPT
              ![r].body = IF dup THEN "Exception" ELSE @,
              ![r].staleWrite =
                  @ \/ (writes /\ ~ru[t].is_insert /\ View(c, k) # ru[t].old_record)]
        /\ ruDone' = [insert_missing |-> ru[t].insert_missing,
                      ignore_missing |-> ru[t].ignore_missing,
                      raw |-> ru[t].raw,
                      absent |-> ~Truthy(ru[t].old_record),
                      exit |-> IF dup THEN "raised" ELSE "returned",
                      write |-> kind,
                      triggers |-> writes /\ ~ru[t].raw]
        /\ exc' = [exc EXCEPT ![t] = IF dup THEN "Exception" ELSE @]
        /\ pc' = [pc EXCEPT ![t] = IF dup THEN Handler("Exception") ELSE @]
    /\ ru' = [ru EXCEPT ![t] = NoRu]
    /\ UNCHANGED <<backend, committed, connState, owner, current_conn, frames>>
    /\ lastCall' = NoCall
    /\ UNCHANGED nonConnVars

\* The body raises an Exception at `yield` (line 121); an open RecordUpdater
\* exits with exc_type set and writes nothing (table.py lines 141-142).
body_raise(t) ==
    /\ pc[t] = "body"
    /\ exc' = [exc EXCEPT ![t] = "Exception"]
    /\ hist' = [hist EXCEPT ![Req(t)].body = "Exception"]
    /\ ruDone' =
          IF ru[t].phase # "open" THEN NoRuLog
          ELSE LET kind == aexit_write("Exception", ru[t].record,
                                       ru[t].is_insert, ru[t].old_record)
               IN  [insert_missing |-> ru[t].insert_missing,
                    ignore_missing |-> ru[t].ignore_missing,
                    raw |-> ru[t].raw,
                    absent |-> ~Truthy(ru[t].old_record),
                    exit |-> "body_raised",
                    write |-> kind,
                    triggers |-> kind # "none" /\ ~ru[t].raw]
    /\ pc' = [pc EXCEPT ![t] = Handler("Exception")]
    /\ ru' = [ru EXCEPT ![t] = NoRu]
    /\ UNCHANGED <<backend, committed, connState, owner, pending, lockHolder,
                   current_conn, frames>>
    /\ lastCall' = NoCall
    /\ UNCHANGED nonConnVars

\* The runtime cancels the task while the body is suspended at an await:
\* CancelledError is thrown into the generator at `yield`.
body_cancel(t) ==
    /\ pc[t] = "body"
    /\ exc' = [exc EXCEPT ![t] = "CancelledError"]
    /\ hist' = [hist EXCEPT ![Req(t)].body = "CancelledError"]
    /\ pc' = [pc EXCEPT ![t] = Handler("CancelledError")]
    /\ ru' = [ru EXCEPT ![t] = NoRu]
    /\ UNCHANGED <<backend, committed, connState, owner, pending, lockHolder,
                   current_conn, frames>>
    /\ lastCall' = NoCall
    /\ ruDone' = NoRuLog
    /\ UNCHANGED nonConnVars

\* The body finishes: control returns from `yield` to line 122.
body_return(t) ==
    /\ pc[t] = "body"
    /\ ru[t].phase = "none"
    /\ hist' = [hist EXCEPT ![Req(t)].body = "ok"]
    /\ pc' = [pc EXCEPT ![t] = "commit"]
    /\ UNCHANGED <<backend, committed, connState, owner, pending, lockHolder,
                   current_conn, frames, exc, ru>>
    /\ lastCall' = NoCall
    /\ ruDone' = NoRuLog
    /\ UNCHANGED nonConnVars


ClearPending(c) == [pending EXCEPT ![c] = NoPending]

\* `await self.adapter.commit(conn)` (line 122) succeeds.
commit_done(t) ==
    /\ pc[t] = "commit"
    /\ LET c == Req(t) IN
        /\ committed' = adapter_commit(c)
        /\ pending' = ClearPending(c)
        /\ lockHolder' = DropLocks(c)
        /\ hist' = [hist EXCEPT ![c].commits = @ + 1, ![c].outcome = "committed"]
    /\ pc' = [pc EXCEPT ![t] = "finally"]
    /\ UNCHANGED <<backend, connState, owner, current_conn, frames, exc, ru>>
    /\ lastCall' = NoCall
    /\ ruDone' = NoRuLog
    /\ UNCHANGED nonConnVars

\* `await self.adapter.commit(conn)` raises: the error is raised inside the
\* try block and is handled like an exception of the body.
commit_fail(t) ==
    /\ pc[t] = "commit"
    /\ hist' = [hist EXCEPT ![Req(t)].commits = @ + 1]
    /\ exc' = [exc EXCEPT ![t] = "Exception"]
    /\ pc' = [pc EXCEPT ![t] = Handler("Exception")]
    /\ UNCHANGED <<backend, committed, connState, owner, pending, lockHolder,
                   current_conn, frames, ru>>
    /\ lastCall' = NoCall
    /\ ruDone' = NoRuLog
    /\ UNCHANGED nonConnVars

\* The task is cancelled while it awaits the commit: the driver may or may
\* not have carried the commit out when CancelledError is delivered.
commit_cancel(t, applied) ==
    /\ pc[t] = "commit"
    /\ LET c == Req(t) IN
        /\ committed' = IF applied THEN adapter_commit(c) ELSE committed
        /\ pending' = IF applied THEN ClearPending(c) ELSE pending
        /\ lockHolder' = IF applied THEN DropLocks(c) ELSE lockHolder
        /\ hist' = [hist EXCEPT ![c].commits = @ + 1,
                                ![c].outcome = IF applied THEN "committed" ELSE @]
    /\ exc' = [exc EXCEPT ![t] = "CancelledError"]
    /\ pc' = [pc EXCEPT ![t] = Handler("CancelledError")]
    /\ UNCHANGED <<backend, connState, owner, current_conn, frames, ru>>
    /\ lastCall' = NoCall
    /\ ruDone' = NoRuLog
    /\ UNCHANGED nonConnVars

\* `await self.adapter.rollback(conn)` (line 124) succeeds, then `raise`.
rollback_done(t) ==
    /\ pc[t] = "rollback"
    /\ LET c == Req(t) IN
        /\ committed' = adapter_rollback(c)
        /\ pending' = ClearPending(c)
        /\ lockHolder' = DropLocks(c)
        /\ hist' = [hist EXCEPT ![c].rollbacks = @ + 1, ![c].outcome = "rolledback"]
    /\ pc' = [pc EXCEPT ![t] = "finally"]
    /\ UNCHANGED <<backend, connState, owner, current_conn, frames, exc, ru>>
    /\ lastCall' = NoCall
    /\ ruDone' = NoRuLog
    /\ UNCHANGED nonConnVars

\* `await self.adapter.rollback(conn)` itself raises: its error leaves the
\* except clause and the finally clause still runs.
rollback_fail(t) ==
    /\ pc[t] = "rollback"
    /\ hist' = [hist EXCEPT ![Req(t)].rollbacks = @ + 1]
    /\ pc' = [pc EXCEPT ![t] = "finally"]
    /\ UNCHANGED <<backend, committed, connState, owner, pending, lockHolder,
                   current_conn, frames, exc, ru>>
    /\ lastCall' = NoCall
    /\ ruDone' = NoRuLog
    /\ UNCHANGED nonConnVars

\* The finally clause (lines 126-128): _current_conn.reset(token) and
\* `await self.adapter.release(conn)`; the generator ends and the exception
\* in flight, if any, reaches the caller of connection().
finally_release(t) ==
    /\ pc[t] = "finally"
    /\ LET c == Req(t)
           rest == SubSeq(frames[t], 1, Len(frames[t]) - 1)
       IN
        /\ current_conn' = ContextVar_reset(t, Top(t).token)
        /\ committed' = adapter_release(c)
        /\ pending' = ClearPending(c)
        /\ lockHolder' = DropLocks(c)
        /\ connState' = [connState EXCEPT ![c] = "released"]
        /\ frames' = [frames EXCEPT ![t] = rest]
        /\ hist' = [hist EXCEPT
              ![c].releases = @ + 1,
              ![c].propagated = exc[t],
              ![c].outcome = IF @ = "none" THEN "discarded" ELSE @,
              ![IF rest = <<>> THEN c ELSE rest[Len(rest)].conn].body =
                  IF rest # <<>> /\ exc[t] # "none" THEN exc[t] ELSE @]
        /\ pc' = [pc EXCEPT ![t] =
              IF rest = <<>> THEN "idle"
              ELSE IF exc[t] = "none" THEN "body" ELSE Handler(exc[t])]
        /\ exc' = [exc EXCEPT ![t] = IF rest = <<>> THEN "none" ELSE @]
    /\ UNCHANGED <<backend, owner, ru>>
    /\ lastCall' = NoCall
    /\ ruDone' = NoRuLog
    /\ UNCHANGED nonConnVars

(***************************************************************************)
(* Calls made while no connection() is active in the task.                 *)
(***************************************************************************)

\* CRUD helpers of SqlDb, methods of Table and of Query: each reaches
\* SqlDb.execute / fetch_one / fetch_all, which evaluate SqlDb.conn first.
OutsideOps == {"execute", "fetch_all", "insert", "select", "record",
               "query_fetch", "sync_schema", "add_column_if_missing"}

\* Table.sync_schema (lines 287-295) and Table.add_column_if_missing (lines
\* 272-275) wrap SqlDb.execute in `try ... except Exception: pass`.
SwallowsErrors(op) == op \in {"sync_schema", "add_column_if_missing"}

\* Outcome of calling op with SqlDb.conn raising RuntimeError (lines 92-94).
OutsideOutcome(op) == IF SwallowsErrors(op) THEN "returned" ELSE "RuntimeError"

call_outside(t, op) ==
    /\ pc[t] = "idle"
    /\ SqlDb_conn(t) = 0
    /\ lastCall' = [task |-> t, op |-> op, outcome |-> OutsideOutcome(op)]
    /\ ruDone' = NoRuLog
    /\ UNCHANGED <<backend, committed, connState, owner, pending, lockHolder,
                   hist, current_conn, frames, pc, exc, ru>>
    /\ UNCHANGED nonConnVars

Next ==
    \/ \E t \in Tasks : connection_enter(t)
    \/ \E t \in Tasks, k \in Keys : SqlDb_write(t, k)
    \/ \E t \in Tasks : body_raise(t)
    \/ \E t \in Tasks : body_cancel(t)
    \/ \E t \in Tasks : body_return(t)
    \/ \E t \in Tasks : commit_done(t)
    \/ \E t \in Tasks : commit_fail(t)
    \/ \E t \in Tasks, applied \in BOOLEAN : commit_cancel(t, applied)
    \/ \E t \in Tasks : rollback_done(t)
    \/ \E t \in Tasks : rollback_fail(t)
    \/ \E t \in Tasks : finally_release(t)
    \/ \E t \in Tasks, op \in OutsideOps : call_outside(t, op)

Spec == Init /\ [][Next]_vars

\* Concurrent record_to_update contexts: the request bodies use only the
\* RecordUpdater, and no driver call fails.
NextRu ==
    \/ \E t \in Tasks : connection_enter(t)
    \/ \E t \in Tasks, k \in Keys, im \in BOOLEAN, ig \in BOOLEAN,
          fu \in BOOLEAN, raw \in BOOLEAN :
          RecordUpdater_aenter(t, k, im, ig, fu, raw)
    \/ \E t \in Tasks, col \in DataCols : RecordUpdater_mutate(t, col)
    \/ \E t \in Tasks : RecordUpdater_aexit(t)
    \/ \E t \in Tasks : body_raise(t)
    \/ \E t \in Tasks : body_return(t)
    \/ \E t \in Tasks : commit_done(t)
    \/ \E t \in Tasks : rollback_done(t)
    \/ \E t \in Tasks : finally_release(t)

SpecRu == Init /\ [][NextRu]_vars

-----------------------------------------------------------------------------
(***************************************************************************)
(* Part II.  Authentication gates, invoke and tenant resolution.           *)
(***************************************************************************)

\* TenantsTable.get_tenant_by_token (tenant/table.py lines 80-101), called
\* in a task whose _current_conn holds cv.  Table.record reaches SqlDb.conn
\* first; with ignore_missing=True a missing row is an empty dict.
get_tenant_by_token(cv, api_key) ==
    LET key_hash == sha256(api_key)
        rows == {tid \in TenantIds : /\ tenants[tid].exists
                                     /\ tenants[tid].api_key_hash = key_hash}
    IN  IF cv = 0
        THEN [raised |-> OutsideOutcome("record"), tenant |-> None]
        ELSE IF rows = {}
        THEN [raised |-> "none", tenant |-> None]
        ELSE LET tid == CHOOSE x \in rows : TRUE
                 expires_at == tenants[tid].api_key_expires_at
             IN  IF PyTruthy(expires_at) /\ expires_at.value < now
                 THEN [raised |-> "none", tenant |-> None]
                 ELSE [raised |-> "none", tenant |-> tid]

\* BaseEndpoint._resolve_tenant_from_token (endpoint_base.py lines 478-497).
resolve_tenant_from_token(cv, api_token) ==
    LET r == get_tenant_by_token(cv, api_token)
    IN  IF r.raised # "none" THEN r
        ELSE IF r.tenant # None THEN r
        ELSE [raised |-> "InvalidTokenError", tenant |-> None]

\* AccountEndpoint.add / get (account/endpoint.py lines 60-109) on the
\* accounts table: add upserts (tenant_id, id), get raises ValueError for a
\* missing row.  accounts.tenant_id is declared a foreign key to tenants
\* (account/table.py line 38, table.py lines 253-258): PostgreSQL rejects
\* the insert of a row for a missing tenant, SQLite, whose foreign_keys
\* pragma is never switched on, accepts it.
AccountEndpoint_call(method_name, tenant_id, id) ==
    LET row == <<tenant_id, id>>
        fk_ok == backend = "sqlite" \/ tenants[tenant_id].exists
    IN  IF method_name = "add"
        THEN IF row \in accounts \/ fk_ok
             THEN [raised |-> "none", accounts |-> accounts \cup {row}]
             ELSE [raised |-> "IntegrityError", accounts |-> accounts]
        ELSE [raised |-> IF row \in accounts THEN "none" ELSE "ValueError",
              accounts |-> accounts]

\* BaseEndpoint.invoke (endpoint_base.py lines 426-476) run by task t: the
\* connection context is entered, the tenant is resolved from the token
\* only when the parameters carry no tenant_id, the parameters are
\* validated (tenant_id is a required field of every account method) and
\* the method is called; an exception rolls the transaction back.
invoke(t, method_name, params, api_token, is_admin) ==
    LET cv == ContextVar_set(t, NextConn)[t]
        resolves == /\ api_token # NoToken
                    /\ ~is_admin
                    /\ params.tenant_id = Absent
        r == IF resolves THEN resolve_tenant_from_token(cv, api_token)
             ELSE [raised |-> "none", tenant |-> None]
        tenant_id == IF resolves /\ r.raised = "none" THEN r.tenant
                     ELSE params.tenant_id
        call == AccountEndpoint_call(method_name, tenant_id, params.id)
        looked == resolves /\ r.raised \in {"none", "InvalidTokenError"}
    IN  IF r.raised # "none"
        THEN [raised |-> r.raised, executed |-> FALSE, tenant_id |-> None,
              looked_up |-> looked, tenant |-> None, accounts |-> accounts]
        ELSE IF tenant_id = Absent
        THEN [raised |-> "ValidationError", executed |-> FALSE,
              tenant_id |-> None, looked_up |-> looked, tenant |-> r.tenant,
              accounts |-> accounts]
        ELSE [raised |-> call.raised, executed |-> TRUE,
              tenant_id |-> tenant_id, looked_up |-> looked,
              tenant |-> r.tenant,
              accounts |-> IF call.raised = "none" THEN call.accounts
                           ELSE accounts]

\* The route handlers without their `except ValueError` clause.
http_status_no_value_error(raised) ==
    CASE raised = "none" -> 200
      [] raised = "InvalidTokenError" -> 401
      [] raised = "ValidationError" -> 422
      [] OTHER -> 500

\* The except clauses of the route handlers (api_base.py lines 173-195 for
\* POST, 223-245 for GET): the status of the response by what invoke raised.
http_status(raised) ==
    CASE raised = "none" -> 200
      [] raised = "InvalidTokenError" -> 401
      [] raised = "ValidationError" -> 422
      [] raised = "ValueError" -> 404
      [] OTHER -> 500

\* The top-level key of the response body: {data: result} on success,
\* {error: ...} from the handler's own responses, and FastAPI's
\* {detail: ...} for the HTTPException raised on an invalid token.
http_body(raised) ==
    CASE raised = "none" -> "data"
      [] raised = "InvalidTokenError" -> "detail"
      [] OTHER -> "error"

\* BaseEndpoint.get_http_method: POST for methods decorated with @POST
\* (AccountEndpoint.add), GET otherwise.
get_http_method(method_name) == IF method_name = "add" THEN "POST" ELSE "GET"

\* require_token (api_base.py lines 43-78): status 0 lets the request in.
require_token(api_token) ==
    IF api_token = NoToken
    THEN IF expected # None THEN [status |-> 401, is_admin |-> FALSE]
         ELSE [status |-> 0, is_admin |-> FALSE]
    ELSE IF expected # None /\ api_token = expected
    THEN [status |-> 0, is_admin |-> TRUE]
    ELSE [status |-> 0, is_admin |-> FALSE]

\* require_admin_token (api_base.py lines 81-117) run by task t as a route
\* dependency: no connection() context is open around the tenant lookup.
require_admin_token(t, api_token) ==
    LET r == get_tenant_by_token(SqlDb_conn(t), api_token)
    IN  IF api_token = NoToken
        THEN IF expected # None THEN 401 ELSE 0
        ELSE IF expected # None /\ api_token = expected THEN 0
        ELSE IF proxy /\ r.raised # "none" THEN http_status(r.raised)
        ELSE IF proxy /\ r.tenant # None THEN 403
        ELSE 401

\* ApiManager._create_app (api_base.py lines 277-298): sets the global
\* _proxy and stores config.api_token (None: open access) in app.state.
create_app(cfg) ==
    /\ ~proxy
    /\ proxy' = TRUE
    /\ expected' = cfg
    /\ resp' = NoResp
    /\ UNCHANGED <<tenants, issued, accounts, now>>
    /\ UNCHANGED nonAuthVars

\* TenantEndpoint.add inserting a new tenant (tenant/endpoint.py lines
\* 50-84); TenantsTable.on_inserting (tenant/table.py lines 47-51) stores
\* the hash of a fresh key, with no expiry.
tenant_add(tid, api_key) ==
    /\ ~tenants[tid].exists
    /\ api_key \in TenantKeys \ issued
    /\ tenants' = [tenants EXCEPT ![tid] =
                     [exists |-> TRUE, api_key_hash |-> sha256(api_key),
                      api_key_expires_at |-> PyNone]]
    /\ issued' = issued \cup {api_key}
    /\ resp' = NoResp
    /\ UNCHANGED <<proxy, expected, accounts, now>>
    /\ UNCHANGED nonAuthVars

\* TenantsTable.create_api_key (tenant/table.py lines 53-78).
create_api_key(tid, api_key, expires_at) ==
    /\ tenants[tid].exists
    /\ api_key \in TenantKeys \ issued
    /\ tenants' = [tenants EXCEPT ![tid] =
                     [exists |-> TRUE, api_key_hash |-> sha256(api_key),
                      api_key_expires_at |-> expires_at]]
    /\ issued' = issued \cup {api_key}
    /\ resp' = NoResp
    /\ UNCHANGED <<proxy, expected, accounts, now>>
    /\ UNCHANGED nonAuthVars

\* The clock read by get_tenant_by_token (tenant/table.py line 98) advances.
tick ==
    /\ now < MaxNow
    /\ now' = now + 1
    /\ resp' = NoResp
    /\ UNCHANGED <<proxy, expected, tenants, issued, accounts>>
    /\ UNCHANGED nonAuthVars

\* A request to a regular /api/accounts route handled by task t:
\* require_token, then the route handler's endpoint.invoke and its mapping
\* of exceptions to statuses (api_base.py lines 159-195, 209-245).
api_request(t, api_token, method_name, params) ==
    LET gate == require_token(api_token)
        res == invoke(t, method_name, params, api_token, gate.is_admin)
    IN  /\ proxy
        /\ SqlDb_conn(t) = 0
        /\ IF gate.status # 0
           THEN /\ resp' = [NoResp EXCEPT !.route = "regular",
                              !.token = api_token, !.method = method_name,
                              !.params = params, !.status = gate.status,
                              !.body = "detail"]
                /\ UNCHANGED accounts
           ELSE /\ resp' = [route |-> "regular", token |-> api_token,
                            method |-> method_name, params |-> params,
                            status |-> http_status(res.raised),
                            is_admin |-> gate.is_admin,
                            looked_up |-> res.looked_up,
                            tenant |-> res.tenant,
                            executed |-> res.executed,
                            tenant_id |-> res.tenant_id,
                            raised |-> res.raised,
                            body |-> http_body(res.raised)]
                /\ accounts' = res.accounts
        /\ UNCHANGED <<proxy, expected, tenants, issued, now>>
        /\ UNCHANGED nonAuthVars

\* A request to a route guarded by admin_dependency (api_base.py lines
\* 81-122) handled by task t; the route itself answers 200.
admin_request(t, api_token) ==
    LET gate == require_admin_token(t, api_token)
    IN  /\ proxy
        /\ SqlDb_conn(t) = 0
        /\ resp' = [NoResp EXCEPT !.route = "admin", !.token = api_token,
                      !.status = IF gate = 0 THEN 200 ELSE gate,
                      !.executed = (gate = 0),
                      !.body = IF gate = 0 THEN "data" ELSE "detail"]
        /\ UNCHANGED <<proxy, expected, tenants, issued, accounts, now>>
        /\ UNCHANGED nonAuthVars

NextAuth ==
    \/ \E cfg \in {None, AdminToken} : create_app(cfg)
    \/ \E tid \in TenantIds, k \in TenantKeys : tenant_add(tid, k)
    \/ \E tid \in TenantIds, k \in TenantKeys, e \in Expiries :
          create_api_key(tid, k, e)
    \/ tick
    \/ \E t \in Tasks, tok \in Presented, m \in Methods, p \in Params :
          api_request(t, tok, m, p)
    \/ \E t \in Tasks, tok \in Presented : admin_request(t, tok)

SpecAuth == Init /\ [][NextAuth]_vars

-----------------------------------------------------------------------------
(***************************************************************************)
(* Part III.  The channel factories: HTTP routes and CLI subcommands.      *)
(***************************************************************************)

\* BaseEndpoint._internal_methods (endpoint_base.py line 233).
internal_methods == {"invoke"}

\* An endpoint subclass declares an async or plain method, decorated or not
\* with @endpoint(api=..., cli=..., post=...) (endpoint_base.py lines 60-104).
declare_method(name, is_async, api, cli, post) ==
    /\ registered = {}
    /\ ~methods[name].defined
    /\ methods' = [methods EXCEPT ![name] =
                     [defined |-> TRUE, is_async |-> is_async, api |-> api,
                      cli |-> cli, post |-> post]]
    /\ UNCHANGED <<class_default, routes, commands, registered>>
    /\ UNCHANGED nonRegVars

\* The subclass overrides one class-level default (endpoint_base.py lines
\* 156-160): _default_api, _default_cli or _default_post.
override_default(axis) ==
    /\ registered = {}
    /\ class_default[axis] = (axis = "api" \/ axis = "cli")
    /\ class_default' = [class_default EXCEPT ![axis] = ~class_default[axis]]
    /\ UNCHANGED <<methods, routes, commands, registered>>
    /\ UNCHANGED nonRegVars

\* BaseEndpoint.get_methods (endpoint_base.py lines 235-251).
get_methods ==
    {n \in MethodNames : /\ methods[n].defined
                         /\ ~startswith_underscore(n)
                         /\ n \notin internal_methods
                         /\ methods[n].is_async}

\* BaseEndpoint.is_available_for_channel (endpoint_base.py lines 271-291).
is_available_for_channel(n, channel) ==
    IF methods[n][channel] # "unset" THEN methods[n][channel] = "on"
    ELSE class_default[channel]

\* BaseEndpoint.get_http_method (endpoint_base.py lines 253-269) on the
\* declared methods.
http_verb(n) ==
    IF methods[n].post # "unset"
    THEN (IF methods[n].post = "on" THEN "POST" ELSE "GET")
    ELSE (IF class_default.post THEN "POST" ELSE "GET")

\* The path of a method's route under the /api router (api_base.py line 141
\* and line 298).
route_path(n) == <<"/api", "accounts", replace_underscore(n)>>

\* register_api_endpoint (api_base.py lines 125-147), called for the
\* endpoint by ApiManager._create_app: one route per method of get_methods.
register_api_endpoint ==
    /\ "api" \notin registered
    /\ routes' = {<<http_verb(n), route_path(n)>> : n \in get_methods}
    /\ registered' = registered \cup {"api"}
    /\ UNCHANGED <<methods, class_default, commands>>
    /\ UNCHANGED nonRegVars

\* register_endpoint (cli_base.py lines 199-254), called for the endpoint by
\* CliManager._create_cli: one subcommand per public coroutine function
\* found by dir(endpoint).
register_endpoint ==
    /\ "cli" \notin registered
    /\ commands' = {replace_underscore(n) :
                      n \in {x \in MethodNames : /\ methods[x].defined
                                                 /\ ~startswith_underscore(x)
                                                 /\ methods[x].is_async}}
    /\ registered' = registered \cup {"cli"}
    /\ UNCHANGED <<methods, class_default, routes>>
    /\ UNCHANGED nonRegVars

NextReg ==
    \/ \E n \in UserMethods, a \in BOOLEAN, api \in Axis, cli \in Axis,
          post \in {"unset", "on"} : declare_method(n, a, api, cli, post)
    \/ \E axis \in {"api", "cli", "post"} : override_default(axis)
    \/ register_api_endpoint
    \/ register_endpoint

SpecReg == Init /\ [][NextReg]_vars

-----------------------------------------------------------------------------
(***************************************************************************)
(* Part IV.  Table.record.                                                 *)
(***************************************************************************)

\* A row is stored in the table (SqlDb.insert); no unique constraint covers
\* the column the lookups test.
insert_row(v) ==
    /\ Len(tbl) < MaxRows
    /\ tbl' = Append(tbl, <<v, Len(tbl) + 1>>)
    /\ recCall' = NoRecCall
    /\ UNCHANGED nonRecVars

\* Positions of the rows matching `where`, in storage order.
Matching(where) == {i \in 1..Len(tbl) : tbl[i][1] = where}

RECURSIVE FirstN(_, _)
\* The ids of the first n rows of the positions in S: SELECT ... LIMIT n.
FirstN(S, n) ==
    IF S = {} \/ n = 0 THEN <<>>
    ELSE LET i == CHOOSE x \in S : \A y \in S : x <= y
         IN  <<tbl[i][2]>> \o FirstN(S \ {i}, n - 1)

\* Table.select_for_update (table.py lines 526-548): fetch_one returns the
\* first matching row, decoded, or None.
select_for_update(where) == FirstN(Matching(where), 1)

\* Table.record (table.py lines 439-524): the rows it fetches and what it
\* returns or raises for them.
Table_record_result(where, ignore_missing, ignore_duplicate, for_update, raw) ==
    LET rows == IF for_update THEN select_for_update(where)
                ELSE FirstN(Matching(where), 2)
        decoded == for_update \/ ~raw
    IN  IF Len(rows) = 0
        THEN [result |-> IF ignore_missing THEN "empty"
                         ELSE "RecordNotFoundError",
              row |-> 0, decoded |-> FALSE]
        ELSE IF Len(rows) > 1 /\ ~ignore_duplicate
        THEN [result |-> "RecordDuplicateError", row |-> 0, decoded |-> FALSE]
        ELSE [result |-> "row", row |-> rows[1], decoded |-> decoded]

\* A call of Table.record with the given options.
Table_record(where, ignore_missing, ignore_duplicate, for_update, raw) ==
    LET r == Table_record_result(where, ignore_missing, ignore_duplicate,
                                 for_update, raw)
    IN  /\ recCall' = [where |-> where, ignore_missing |-> ignore_missing,
                       ignore_duplicate |-> ignore_duplicate,
                       for_update |-> for_update, raw |-> raw,
                       result |-> r.result, row |-> r.row,
                       decoded |-> r.decoded]
        /\ UNCHANGED tbl
        /\ UNCHANGED nonRecVars

NextRec ==
    \/ \E v \in ColValues : insert_row(v)
    \/ \E w \in ColValues, im \in BOOLEAN, idup \in BOOLEAN, fu \in BOOLEAN,
          raw \in BOOLEAN : Table_record(w, im, idup, fu, raw)

SpecRec == Init /\ [][NextRec]_vars

-----------------------------------------------------------------------------
(***************************************************************************)
(* Part V.  Discovery of table and endpoint classes.                       *)
(***************************************************************************)

\* A subclass test that knows no inheritance.
issubclass_same_only(c, d) == c = d

\* Python's issubclass(c, d) on the contributed classes.
issubclass(c, d) == c = d \/ (c = "Derived" /\ d = "Base")

RECURSIVE most_derived(_, _, _)
\* Phase 1 of discover (sqldb.py lines 180-189, endpoint_base.py lines
\* 555-562): over the scan from position i, keep the first class and replace
\* it by each later class that is a subclass of the one kept.
most_derived(sc, i, kept) ==
    IF i > Len(sc) THEN kept
    ELSE most_derived(sc, i + 1,
            IF kept = NoClass THEN sc[i]
            ELSE IF issubclass(sc[i], kept) THEN sc[i]
            ELSE kept)

\* The register-or-replace phase (sqldb.py lines 191-203, endpoint_base.py
\* lines 564-576): a new name is registered, a registered class is replaced
\* only by a strictly more derived one.
register_or_replace(existing, cls) ==
    IF existing = NoClass THEN cls
    ELSE IF cls # existing /\ issubclass(cls, existing) THEN cls
    ELSE existing

RECURSIVE record_seen(_, _, _)
\* The classes of the scan from position i appended to the classes seen.
record_seen(sq, sc, i) ==
    IF i > Len(sc) THEN sq
    ELSE record_seen(IF \E j \in DOMAIN sq : sq[j] = sc[i] THEN sq
                     ELSE Append(sq, sc[i]), sc, i + 1)

\* SqlDb.discover (sqldb.py lines 154-205) meeting the classes of sc.
SqlDb_discover(sc) ==
    /\ discovers["tables"] < MaxDiscover
    /\ tables' = register_or_replace(tables, most_derived(sc, 1, NoClass))
    /\ seen' = [seen EXCEPT !["tables"] = record_seen(@, sc, 1)]
    /\ discovers' = [discovers EXCEPT !["tables"] = @ + 1]
    /\ UNCHANGED endpoints
    /\ UNCHANGED nonDiscVars

\* EndpointManager.discover (endpoint_base.py lines 520-578) meeting the
\* endpoint classes of sc.
EndpointManager_discover(sc) ==
    /\ discovers["endpoints"] < MaxDiscover
    /\ endpoints' = register_or_replace(endpoints, most_derived(sc, 1, NoClass))
    /\ seen' = [seen EXCEPT !["endpoints"] = record_seen(@, sc, 1)]
    /\ discovers' = [discovers EXCEPT !["endpoints"] = @ + 1]
    /\ UNCHANGED tables
    /\ UNCHANGED nonDiscVars

NextDisc ==
    \/ \E sc \in Scans : SqlDb_discover(sc)
    \/ \E sc \in Scans : EndpointManager_discover(sc)

SpecDisc == Init /\ [][NextDisc]_vars

-----------------------------------------------------------------------------
(***************************************************************************)
(* Part VI.  Column encoding of Table (JSON and encrypted columns) and the *)
(* EncryptionManager.                                                      *)
(***************************************************************************)

\* is_encrypted, encryption.py lines 114-116
is_encrypted(s) == Len(s) >= 1 /\ s[1] = ENCRYPTED_PREFIX

\* encrypt_value_with_key: "ENC:" followed by the AES-GCM ciphertext, which
\* only the same key opens.  The random nonce is left out: it changes the
\* ciphertext, never what decryption returns.
encrypt_value_with_key(s, key) ==
    IF s = <<>> THEN s
    ELSE IF is_encrypted(s) THEN s
    ELSE <<ENCRYPTED_PREFIX, key>> \o s

\* decrypt_value_with_key raises EncryptionError when the payload is not a
\* ciphertext made with this key.
decrypt_raises(s, key) ==
    /\ s # <<>>
    /\ is_encrypted(s)
    /\ ~(Len(s) >= 2 /\ s[2] = key)

decrypt_value_with_key(s, key) ==
    IF s = <<>> \/ ~is_encrypted(s) THEN s ELSE SubSeq(s, 3, Len(s))

\* json.dumps: a dict renders in braces, a str in double quotes.
json_dumps(v) ==
    IF v.type = "dict" THEN StrV(<<"{">> \o v.s \o <<"}">>)
    ELSE StrV(<<"\"">> \o v.s \o <<"\"">>)

\* json.loads raises (TypeError, JSONDecodeError) on anything but a JSON text.
is_json_object(s) == Len(s) = 3 /\ s[1] = "{" /\ s[3] = "}"
is_json_string(s) == Len(s) >= 2 /\ s[1] = "\"" /\ s[Len(s)] = "\""
json_loads_raises(v) ==
    v.type # "str" \/ ~(is_json_object(v.s) \/ is_json_string(v.s))

json_loads(v) ==
    IF is_json_object(v.s) THEN DictV(v.s[2])
    ELSE StrV(SubSeq(v.s, 2, Len(v.s) - 1))

\* Table._encode_json_fields
_encode_json_fields(data) ==
    [c \in Columns |->
        IF c \in json_columns /\ data[c].type # "none"
        THEN json_dumps(data[c]) ELSE data[c]]

\* Table._decode_json_fields raises when json.loads does.
_decode_json_fields_raises(row) ==
    \E c \in json_columns : row[c].type # "none" /\ json_loads_raises(row[c])

_decode_json_fields(row) ==
    [c \in Columns |->
        IF c \in json_columns /\ row[c].type # "none"
        THEN json_loads(row[c]) ELSE row[c]]

\* Table._encrypt_fields
_encrypt_fields(data, key) ==
    IF encrypted_columns = {} \/ key = NoKey THEN data
    ELSE [c \in Columns |->
            IF /\ c \in encrypted_columns
               /\ data[c].type = "str"
               /\ ~is_encrypted(data[c].s)
            THEN StrV(encrypt_value_with_key(data[c].s, key))
            ELSE data[c]]

\* Table._decrypt_fields: a value that fails to decrypt is kept as it is.
_decrypt_fields(row, key) ==
    IF encrypted_columns = {} \/ key = NoKey THEN row
    ELSE [c \in Columns |->
            IF /\ c \in encrypted_columns
               /\ row[c].type = "str"
               /\ is_encrypted(row[c].s)
               /\ ~decrypt_raises(row[c].s, key)
            THEN StrV(decrypt_value_with_key(row[c].s, key))
            ELSE row[c]]

\* ProxyBase.set_encryption_key, before any row is written.
set_encryption_key(key) ==
    /\ stored = <<>>
    /\ encryption_key' = key
    /\ readBack' = NoRead
    /\ encCall' = NoEncCall
    /\ UNCHANGED <<written, stored, environ, secrets_file, manager_key>>
    /\ UNCHANGED nonEncVars

\* Table.insert(record): JSON encoding first, encryption second.
Table_insert(record) ==
    /\ Len(stored) < MaxStored
    /\ written' = Append(written, record)
    /\ stored' = Append(stored,
                    _encrypt_fields(_encode_json_fields(record),
                                    encryption_key))
    /\ readBack' = NoRead
    /\ encCall' = NoEncCall
    /\ UNCHANGED <<encryption_key, environ, secrets_file, manager_key>>
    /\ UNCHANGED nonEncVars

\* Table.select(): each row goes through _decode_json_fields first and
\* _decrypt_fields second.
Table_select ==
    /\ stored # <<>>
    /\ readBack' =
          IF \E i \in DOMAIN stored : _decode_json_fields_raises(stored[i])
          THEN [done |-> TRUE, raised |-> "JSONDecodeError", rows |-> <<>>]
          ELSE [done |-> TRUE, raised |-> "none",
                rows |-> [i \in DOMAIN stored |->
                            _decrypt_fields(_decode_json_fields(stored[i]),
                                            encryption_key)]]
    /\ encCall' = NoEncCall
    /\ UNCHANGED <<encryption_key, written, stored, environ, secrets_file,
                   manager_key>>
    /\ UNCHANGED nonEncVars

\* EncryptionManager._load_key: the environment variable first, the secrets
\* file second; a key of the wrong size or undecodable text is skipped.
_load_key(env, file) ==
    IF env = "key32" THEN EnvKey
    ELSE IF file = "key32" THEN FileKey
    ELSE NoKey

\* EncryptionManager.__init__ in an environment (env, file).
EncryptionManager_init(env, file) ==
    /\ environ' = env
    /\ secrets_file' = file
    /\ manager_key' = _load_key(env, file)
    /\ encCall' = NoEncCall
    /\ readBack' = NoRead
    /\ UNCHANGED <<encryption_key, written, stored>>
    /\ UNCHANGED nonEncVars

\* EncryptionManager.encrypt(plaintext)
EncryptionManager_encrypt(plaintext) ==
    /\ encCall' =
          IF manager_key = NoKey
          THEN [op |-> "encrypt", arg |-> plaintext,
                raised |-> "EncryptionKeyNotConfigured", result |-> <<>>]
          ELSE [op |-> "encrypt", arg |-> plaintext, raised |-> "none",
                result |-> encrypt_value_with_key(plaintext, manager_key)]
    /\ readBack' = NoRead
    /\ UNCHANGED <<encryption_key, written, stored, environ, secrets_file,
                   manager_key>>
    /\ UNCHANGED nonEncVars

\* EncryptionManager.decrypt(encrypted)
EncryptionManager_decrypt(encrypted) ==
    /\ encCall' =
          IF manager_key = NoKey
          THEN [op |-> "decrypt", arg |-> encrypted,
                raised |-> "EncryptionKeyNotConfigured", result |-> <<>>]
          ELSE IF decrypt_raises(encrypted, manager_key)
          THEN [op |-> "decrypt", arg |-> encrypted,
                raised |-> "EncryptionError", result |-> <<>>]
          ELSE [op |-> "decrypt", arg |-> encrypted, raised |-> "none",
                result |-> decrypt_value_with_key(encrypted, manager_key)]
    /\ readBack' = NoRead
    /\ UNCHANGED <<encryption_key, written, stored, environ, secrets_file,
                   manager_key>>
    /\ UNCHANGED nonEncVars

NextEnc ==
    \/ \E key \in {NoKey, EnvKey} : set_encryption_key(key)
    \/ \E record \in Records : Table_insert(record)
    \/ Table_select
    \/ \E env \in EnvValues, file \in FileValues :
          EncryptionManager_init(env, file)
    \/ \E plaintext \in Texts : EncryptionManager_encrypt(plaintext)
    \/ \E encrypted \in Texts : EncryptionManager_decrypt(encrypted)

SpecEnc == Init /\ [][NextEnc]_vars

-----------------------------------------------------------------------------
(***************************************************************************)
(* Part VII.  WhereBuilder: named predicates and expressions.              *)
(***************************************************************************)

\* An empty IN list rendered the other way round.
empty_in_sql_swapped(op) == IF op = "IN" THEN "1=1" ELSE "1=0"

\* return "1=0" if op == 'IN' else "1=1"
empty_in_sql(op) == IF op = "IN" THEN "1=0" ELSE "1=1"

\* The ValueError _condition_to_sql raises for a predicate, "none" if it
\* renders.
condition_error(cond) ==
    LET op == upper(cond.op)
        value == cond.value
    IN IF op \notin OPERATORS THEN "non supportato"
       ELSE IF op \in {"IS NULL", "IS NOT NULL"} THEN "none"
       ELSE IF op \in {"IN", "NOT IN"} /\ value.type # "list"
            THEN "richiede lista"
       ELSE IF op = "BETWEEN" /\ (value.type # "list" \/ value.len # 2)
            THEN "2 elementi"
       ELSE "none"

\* WhereBuilder._condition_to_sql: the SQL of one predicate.
_condition_to_sql(cond, name) ==
    LET op == upper(cond.op)
        value == cond.value
    IN IF op \in {"IS NULL", "IS NOT NULL"}
       THEN <<lit(cond.column), lit(op)>>
       ELSE IF op \in {"IN", "NOT IN"}
       THEN IF value.len = 0 THEN <<lit(empty_in_sql(op))>>
            ELSE <<lit(cond.column), lit(op), lit("(")>>
                 \o [j \in 1..(2 * value.len - 1) |->
                       IF j % 2 = 1
                       THEN placeholder("c_i", name, (j - 1) \div 2)
                       ELSE lit(",")]
                 \o <<lit(")")>>
       ELSE IF op = "BETWEEN"
       THEN <<lit(cond.column), lit("BETWEEN"), placeholder("c_low", name, 0),
              lit("AND"), placeholder("c_high", name, 0)>>
       ELSE IF value.type = "param"
       THEN <<lit(cond.column), lit(op), placeholder("external", name, 0)>>
       ELSE <<lit(cond.column), lit(op), placeholder("c", name, 0)>>

\* The parameters _condition_to_sql adds to params.
condition_params(cond, name) ==
    {t \in {_condition_to_sql(cond, name)[j] :
               j \in DOMAIN _condition_to_sql(cond, name)} :
        t.k \in {"c", "c_i", "c_low", "c_high"}}

\* conditions.get(name)
conditions_get(conditions, name) ==
    IF name \in DOMAIN conditions THEN conditions[name] ELSE Undefined

\* WhereBuilder._build_expression: re.sub replaces each $name, from left to
\* right, by its predicate's SQL in parentheses; the first reference that
\* raises ends the call.
RECURSIVE _build_expression(_, _, _, _)
_build_expression(expr, conditions, i, acc) ==
    IF i > Len(expr) THEN acc
    ELSE IF expr[i].k # "ref"
    THEN _build_expression(expr, conditions, i + 1,
                           [acc EXCEPT !.sql = Append(@, expr[i])])
    ELSE LET name == expr[i].name
             cond == conditions_get(conditions, name)
         IN IF cond = Undefined
            THEN [acc EXCEPT !.raised = "non trovata",
                             !.sql = <<>>, !.params = {}]
            ELSE IF condition_error(cond) # "none"
            THEN [acc EXCEPT !.raised = condition_error(cond),
                             !.sql = <<>>, !.params = {}]
            ELSE _build_expression(expr, conditions, i + 1,
                   [acc EXCEPT
                      !.sql = @ \o <<lit("(")>>
                                \o _condition_to_sql(cond, name)
                                \o <<lit(")")>>,
                      !.params = @ \cup condition_params(cond, name),
                      !.rendered = Append(@,
                          [name |-> name,
                           sql |-> _condition_to_sql(cond, name)])])

\* WhereBuilder._build_simple: col = placeholder, joined by AND.
_build_simple(cols) ==
    IF cols = {} THEN [sql |-> <<>>, params |-> {}]
    ELSE [sql |-> <<lit("col"), lit("="), placeholder("w", "col", 0)>>,
          params |-> {placeholder("w", "col", 0)}]

\* WhereBuilder.build(where, conditions, params)
WhereBuilder_build(where, conditions) ==
    LET start == [done |-> TRUE, where |-> where, conditions |-> conditions,
                  raised |-> "none", sql |-> <<>>, params |-> {},
                  rendered |-> <<>>]
    IN /\ built' =
            IF where.kind = "none" THEN start
            ELSE IF where.kind = "dict"
            THEN [start EXCEPT !.sql = _build_simple(where.cols).sql,
                               !.params = _build_simple(where.cols).params]
            ELSE _build_expression(where.expr, conditions, 1, start)
       /\ UNCHANGED nonQbVars

NextQb ==
    \E where \in Wheres,
       conditions \in [CondNames -> Predicates \cup {Undefined}] :
        WhereBuilder_build(where, conditions)

SpecQb == Init /\ [][NextQb]_vars

-----------------------------------------------------------------------------
(***************************************************************************)
(* Part VIII.  ProxyEndpoint.stop and _stop_instance_process.              *)
(***************************************************************************)

\* ProxyEndpoint._is_instance_running: the PID file exists and os.kill(pid,
\* 0) finds the process.
_is_instance_running(i) == pid_file[i] /\ alive[i]

\* A PID file that is never removed.
_remove_pid_file_kept(f, i) == f

\* ProxyEndpoint._remove_pid_file
_remove_pid_file(f, i) == [f EXCEPT ![i] = FALSE]

\* The instance's server process starts and writes its PID file.
serve(i) ==
    /\ stopCall.pc \in {"idle", "done"}
    /\ ~alive[i]
    /\ alive' = [alive EXCEPT ![i] = TRUE]
    /\ pid_file' = [pid_file EXCEPT ![i] = TRUE]
    /\ stopCall' = NoStop
    /\ UNCHANGED nonProcVars

\* A server process ends, by a signal or by itself, at a time of its own;
\* its PID file stays behind.
process_exit(i) ==
    /\ alive[i]
    /\ alive' = [alive EXCEPT ![i] = FALSE]
    /\ UNCHANGED <<pid_file, stopCall>>
    /\ UNCHANGED nonProcVars

\* _stop_instance_process returned: on to the next instance of the call, or
\* to the return of stop.
next_instance(call) ==
    IF call.todo = <<>>
    THEN [call EXCEPT !.pc = "done", !.cur = "", !.polls = 0]
    ELSE [call EXCEPT !.pc = "start", !.cur = Head(call.todo),
                      !.todo = Tail(call.todo), !.polls = 0,
                      !.attempted = @ \cup {Head(call.todo)}]

\* ProxyEndpoint.stop(name, force) up to its first _stop_instance_process.
ProxyEndpoint_stop(name, force) ==
    /\ stopCall.pc \in {"idle", "done"}
    /\ stopCall' =
          IF name = "*"
          THEN next_instance(
                 [NoStop EXCEPT
                    !.name = name, !.force = force,
                    !.listed = {i \in Instances : _is_instance_running(i)},
                    !.todo = SelectSeq(SortedInstances,
                                       LAMBDA i : _is_instance_running(i))])
          ELSE IF _is_instance_running(name)
          THEN next_instance([NoStop EXCEPT !.name = name, !.force = force,
                                            !.listed = {name},
                                            !.todo = <<name>>])
          ELSE [NoStop EXCEPT !.pc = "done", !.name = name, !.force = force,
                              !.ok = FALSE]
    /\ UNCHANGED <<alive, pid_file>>
    /\ UNCHANGED nonProcVars

\* _stop_instance_process: is_running, pid, _ = _is_instance_running(name)
stop_start ==
    /\ stopCall.pc = "start"
    /\ stopCall' = IF _is_instance_running(stopCall.cur)
                   THEN [stopCall EXCEPT !.pc = "signal"]
                   ELSE next_instance(stopCall)
    /\ UNCHANGED <<alive, pid_file>>
    /\ UNCHANGED nonProcVars

\* os.kill(pid, sig) for the process of instance i: ProcessLookupError when
\* the process is gone; for a live process the signal is delivered, or the
\* system refuses it (EPERM: the process changed its credentials, or a
\* security policy denies this signal to the caller).
os_kill(i, denied) ==
    IF ~alive[i] THEN "ProcessLookupError"
    ELSE IF denied THEN "PermissionError" ELSE "ok"

\* os.kill(pid, sig); ProcessLookupError, PermissionError and OSError go to
\* the outer except clause, which removes the PID file and returns False.
stop_signal(denied) ==
    LET i == stopCall.cur
        sig == IF stopCall.force THEN "SIGKILL" ELSE "SIGTERM"
    IN /\ stopCall.pc = "signal"
       /\ IF os_kill(i, denied) = "ok"
          THEN /\ stopCall' = [stopCall EXCEPT
                                 !.pc = "poll",
                                 !.sent[i] = <<[sig |-> sig, at |-> 0]>>]
               /\ UNCHANGED pid_file
          ELSE /\ pid_file' = _remove_pid_file(pid_file, i)
               /\ stopCall' = next_instance(stopCall)
       /\ UNCHANGED alive
       /\ UNCHANGED nonProcVars

\* One round of the wait loop: time.sleep(0.1); os.kill(pid, 0).  The
\* inner except catches ProcessLookupError only; PermissionError goes to
\* the outer except clause.
stop_poll(denied) ==
    LET i == stopCall.cur
        n == stopCall.polls + 1
    IN /\ stopCall.pc = "poll"
       /\ IF os_kill(i, denied) = "ProcessLookupError"
          THEN /\ pid_file' = _remove_pid_file(pid_file, i)
               /\ stopCall' = next_instance(
                     [stopCall EXCEPT !.stopped = @ \cup {i},
                                      !.confirmed_at[i] = n * poll_ms])
          ELSE IF os_kill(i, denied) = "PermissionError"
          THEN /\ pid_file' = _remove_pid_file(pid_file, i)
               /\ stopCall' = next_instance(stopCall)
          ELSE /\ UNCHANGED pid_file
               /\ stopCall' =
                     IF n < iterations THEN [stopCall EXCEPT !.polls = n]
                     ELSE IF stopCall.force THEN next_instance(stopCall)
                     ELSE [stopCall EXCEPT !.pc = "escalate", !.polls = n]
       /\ UNCHANGED alive
       /\ UNCHANGED nonProcVars

\* if not force: os.kill(pid, signal.SIGKILL)
stop_escalate(denied) ==
    LET i == stopCall.cur
    IN /\ stopCall.pc = "escalate"
       /\ IF os_kill(i, denied) = "ok"
          THEN /\ stopCall' = [stopCall EXCEPT
                                 !.pc = "final_poll",
                                 !.sent[i] = Append(@,
                                     [sig |-> "SIGKILL",
                                      at |-> stopCall.polls * poll_ms])]
               /\ UNCHANGED pid_file
          ELSE /\ pid_file' = _remove_pid_file(pid_file, i)
               /\ stopCall' = next_instance(stopCall)
       /\ UNCHANGED alive
       /\ UNCHANGED nonProcVars

\* time.sleep(0.5); os.kill(pid, 0), once.
stop_final_poll(denied) ==
    LET i == stopCall.cur
    IN /\ stopCall.pc = "final_poll"
       /\ IF os_kill(i, denied) = "ProcessLookupError"
          THEN /\ pid_file' = _remove_pid_file(pid_file, i)
               /\ stopCall' = next_instance(
                     [stopCall EXCEPT
                        !.stopped = @ \cup {i},
                        !.confirmed_at[i] =
                            stopCall.polls * poll_ms + escalation_wait_ms])
          ELSE IF os_kill(i, denied) = "PermissionError"
          THEN /\ pid_file' = _remove_pid_file(pid_file, i)
               /\ stopCall' = next_instance(stopCall)
          ELSE /\ UNCHANGED pid_file
               /\ stopCall' = next_instance(stopCall)
       /\ UNCHANGED alive
       /\ UNCHANGED nonProcVars

NextProc ==
    \/ \E i \in Instances : serve(i)
    \/ \E i \in Instances : process_exit(i)
    \/ \E name \in Instances \cup {"*"}, force \in BOOLEAN :
          ProxyEndpoint_stop(name, force)
    \/ stop_start
    \/ \E denied \in BOOLEAN : stop_signal(denied)
    \/ \E denied \in BOOLEAN : stop_poll(denied)
    \/ \E denied \in BOOLEAN : stop_escalate(denied)
    \/ \E denied \in BOOLEAN : stop_final_poll(denied)

SpecProc == Init /\ [][NextProc]_vars

-----------------------------------------------------------------------------
(***************************************************************************)
(* Part IX.  Concurrent ProxyEndpoint.serve calls on one instance.  The    *)
(* callers are separate command invocations; a spawned process runs the    *)
(* same serve in the foreground, then starts the server and writes its PID *)
(* file.                                                                   *)
(***************************************************************************)

\* _is_instance_running for the instance: server.pid names a live process.
instance_running == pidOwner # 0 /\ children[pidOwner] = "running"

\* The process Popen creates next.
NextChild == CHOOSE k \in Children :
                 children[k] = "none" /\ \A j \in Children :
                     children[j] = "none" => k <= j

\* serve(name, background): the already-running check at its head.
serve_check(c, background) ==
    /\ serveCalls[c].pc \in {"idle", "done"}
    /\ serveCalls' = [serveCalls EXCEPT ![c] =
          IF instance_running
          THEN [NoServe EXCEPT !.pc = "done", !.background = background,
                               !.result = "already_running"]
          ELSE [NoServe EXCEPT !.pc = "start", !.background = background]]
    /\ UNCHANGED <<children, pidOwner>>
    /\ UNCHANGED nonServeVars

\* The rest of serve up to the wait loop: the configuration is read or
\* created; in the background subprocess.Popen starts a process, in the
\* foreground the start parameters are returned.
serve_start(c) ==
    /\ serveCalls[c].pc = "start"
    /\ IF serveCalls[c].background
       THEN /\ \E k \in Children : children[k] = "none"
            /\ children' = [children EXCEPT ![NextChild] = "checking"]
            /\ serveCalls' = [serveCalls EXCEPT
                                ![c].pc = "polling",
                                ![c].spawned = NextChild]
       ELSE /\ serveCalls' = [serveCalls EXCEPT ![c].pc = "done",
                                                ![c].result = "foreground"]
            /\ UNCHANGED children
    /\ UNCHANGED pidOwner
    /\ UNCHANGED nonServeVars

\* One round of the wait loop: time.sleep(0.1); _is_instance_running(name).
serve_poll(c) ==
    LET n == serveCalls[c].polls + 1
    IN /\ serveCalls[c].pc = "polling"
       /\ serveCalls' = [serveCalls EXCEPT ![c] =
             IF instance_running
             THEN [@ EXCEPT !.pc = "done", !.polls = n, !.result = "started"]
             ELSE IF n = startup_polls
             THEN [@ EXCEPT !.pc = "done", !.polls = n,
                            !.result = "not_started"]
             ELSE [@ EXCEPT !.polls = n]]
       /\ UNCHANGED <<children, pidOwner>>
       /\ UNCHANGED nonServeVars

\* A spawned process runs serve(name) in the foreground: it leaves when the
\* instance is already running.
child_check(k) ==
    /\ children[k] = "checking"
    /\ children' = [children EXCEPT ![k] =
                      IF instance_running THEN "exited" ELSE "booting"]
    /\ UNCHANGED <<serveCalls, pidOwner>>
    /\ UNCHANGED nonServeVars

\* The spawned process starts its server and writes server.pid with its
\* own pid (_write_pid_file).
child_write_pid(k) ==
    /\ children[k] = "booting"
    /\ children' = [children EXCEPT ![k] = "running"]
    /\ pidOwner' = k
    /\ UNCHANGED serveCalls
    /\ UNCHANGED nonServeVars

NextServe ==
    \/ \E c \in Callers, background \in BOOLEAN : serve_check(c, background)
    \/ \E c \in Callers : serve_start(c)
    \/ \E c \in Callers : serve_poll(c)
    \/ \E k \in Children : child_check(k)
    \/ \E k \in Children : child_write_pid(k)

SpecServe == Init /\ [][NextServe]_vars

-----------------------------------------------------------------------------
(***************************************************************************)
(* Part X.  CliContext: resolution of the (instance, tenant) context.      *)
(***************************************************************************)

\* The position of the first "/" of a text, 0 when it has none.
find_slash(value) ==
    IF \E j \in DOMAIN value : value[j] = "/"
    THEN CHOOSE j \in DOMAIN value :
             value[j] = "/" /\ \A h \in 1..(j - 1) : value[h] # "/"
    ELSE 0

\* The str a sequence of name tokens spells; the texts here hold at most one
\* token on each side of the separator.
as_name(tokens) == IF tokens = <<>> THEN Unset ELSE tokens[1]

\* CliContext.parse_context
parse_context(value) ==
    LET j == find_slash(value)
    IN IF j # 0
       THEN [instance |-> as_name(SubSeq(value, 1, j - 1)),
             tenant |-> as_name(SubSeq(value, j + 1, Len(value)))]
       ELSE [instance |-> as_name(value), tenant |-> Unset]

\* CliContext.get_current_context
get_current_context(current) ==
    IF current = NoFile \/ current = <<>>
    THEN [instance |-> Unset, tenant |-> Unset]
    ELSE parse_context(current)

\* An instance resolution in which the environment comes before the flag.
resolve_instance_env_first(explicit, env, current, instances) ==
    IF env # Unset THEN env
    ELSE IF explicit # Unset THEN explicit
    ELSE IF get_current_context(current).instance # Unset
    THEN get_current_context(current).instance
    ELSE IF Cardinality(instances) = 1
    THEN CHOOSE i \in instances : TRUE
    ELSE Unset

\* CliContext.resolve_context, the instance
resolve_instance(explicit, env, current, instances) ==
    IF explicit # Unset THEN explicit
    ELSE IF env # Unset THEN env
    ELSE IF get_current_context(current).instance # Unset
    THEN get_current_context(current).instance
    ELSE IF Cardinality(instances) = 1
    THEN CHOOSE i \in instances : TRUE
    ELSE Unset

\* CliContext.resolve_context, the tenant
resolve_tenant(explicit, env, current) ==
    IF explicit # Unset THEN explicit
    ELSE IF env # Unset THEN env
    ELSE get_current_context(current).tenant

\* CliContext.require_context: resolve_context, then sys.exit(1) when the
\* instance, or a required tenant, is not resolved.
CliContext_require_context(ei, et, vi, vt, current, instances, require_tenant) ==
    LET instance == resolve_instance(ei, vi, current, instances)
        tenant == resolve_tenant(et, vt, current)
    IN /\ ctx' = [done |-> TRUE, explicit_instance |-> ei,
                  explicit_tenant |-> et, env_instance |-> vi,
                  env_tenant |-> vt, current |-> current,
                  instances |-> instances, require_tenant |-> require_tenant,
                  instance |-> instance, tenant |-> tenant,
                  exit_code |-> IF instance = Unset THEN 1
                                ELSE IF require_tenant /\ tenant = Unset
                                THEN 1 ELSE 0]
       /\ UNCHANGED nonCtxVars

NextCtx ==
    \E ei \in ExplicitInstances, et \in ExplicitTenants,
       vi \in EnvInstances, vt \in EnvTenants, current \in CurrentFiles,
       instances \in InstanceDirs, require_tenant \in BOOLEAN :
        CliContext_require_context(ei, et, vi, vt, current, instances,
                                   require_tenant)

SpecCtx == Init /\ [][NextCtx]_vars

-----------------------------------------------------------------------------
(***************************************************************************)
(* Part XI.  Schema creation and sync at ProxyBase.init.                   *)
(***************************************************************************)

\* ALTER TABLE ... ADD COLUMN IF NOT EXISTS is PostgreSQL syntax; SQLite
\* rejects the statement with a syntax error.
add_column_if_not_exists_supported(b) == b = "postgresql"

\* Table.create_schema: CREATE TABLE IF NOT EXISTS with the declared columns.
create_schema(t, cols) ==
    IF t.exists THEN t ELSE [exists |-> TRUE, columns |-> cols]

\* Table.sync_schema: one ALTER TABLE per declared column but the key; an
\* exception of the statement is swallowed.
sync_schema(t, cols, b) ==
    IF add_column_if_not_exists_supported(b)
    THEN [t EXCEPT !.columns = @ \cup (cols \ {"id"})]
    ELSE t

\* The rows after the columns of the table grew: new columns are NULL.
widen_rows(rows, cols) ==
    [i \in DOMAIN rows |->
        [c \in cols |-> IF c \in DOMAIN rows[i] THEN rows[i][c] ELSE 0]]

\* ProxyBase.init: check_structure, then sync_schema of every table.
ProxyBase_init ==
    LET created == create_schema(dbTable, declared)
        synced == sync_schema(created, declared, backend)
    IN /\ initLog' = [done |-> TRUE, raised |-> "none",
                      declared |-> declared, table_before |-> dbTable,
                      rows_before |-> dbRows]
       /\ dbTable' = synced
       /\ dbRows' = widen_rows(dbRows, synced.columns)
       /\ UNCHANGED declared
       /\ UNCHANGED nonSchemaVars

\* A release of the code declares one more column in configure().
declare_column(col) ==
    /\ col \notin declared
    /\ declared' = declared \cup {col}
    /\ initLog' = NoInit
    /\ UNCHANGED <<dbTable, dbRows>>
    /\ UNCHANGED nonSchemaVars

\* A row is stored with value v in every column the table has.
store_row(i, v) ==
    /\ dbTable.exists
    /\ i \notin DOMAIN dbRows
    /\ dbRows' = [j \in DOMAIN dbRows \cup {i} |->
                    IF j = i
                    THEN [c \in dbTable.columns |-> IF c = "id" THEN i ELSE v]
                    ELSE dbRows[j]]
    /\ initLog' = NoInit
    /\ UNCHANGED <<declared, dbTable>>
    /\ UNCHANGED nonSchemaVars

NextSchema ==
    \/ ProxyBase_init
    \/ \E col \in LaterCols : declare_column(col)
    \/ \E i \in SchemaIds, v \in {1, 2} : store_row(i, v)

SpecSchema == Init /\ [][NextSchema]_vars

-----------------------------------------------------------------------------
(***************************************************************************)
(* Part XII.  The steps of BaseEndpoint.invoke, in the order the coroutine *)
(* takes them; trace records what has been done.                           *)
(***************************************************************************)

\* An endpoint on which every name is found.
has_method_any(method_name) == TRUE

\* getattr(self, method_name, None) is a callable
has_method(method_name) == method_name = "add"

\* _coerce_json_params: a str given for a dict parameter is parsed as JSON;
\* text that is not JSON stays a str.
_coerce_json_params(params) ==
    [params EXCEPT !.data = IF @ = "json_text" THEN "dict" ELSE @]

\* model_class.model_validate(params) raises ValidationError: a required
\* field is missing or a value has the wrong type.
model_validate_raises(params) ==
    \/ params.id # "str"
    \/ params.tenant_id = "absent"
    \/ params.data # "dict"

\* invoke up to the connection context: the method is looked up.
invoke_begin(method_name, params, api_token, is_admin) ==
    /\ inv.pc \in {"idle", "done"}
    /\ inv' = IF has_method(method_name)
              THEN [NoInvoke EXCEPT !.pc = "connect",
                                    !.method_name = method_name,
                                    !.params = params,
                                    !.api_token = api_token,
                                    !.is_admin = is_admin]
              ELSE [NoInvoke EXCEPT !.pc = "done",
                                    !.method_name = method_name,
                                    !.params = params,
                                    !.api_token = api_token,
                                    !.is_admin = is_admin,
                                    !.raised = "ValueError"]
    /\ UNCHANGED nonInvVars

\* async with self._connection():
invoke_connect ==
    /\ inv.pc = "connect"
    /\ inv' = [inv EXCEPT !.pc = "resolve",
                          !.trace = Append(@, "connection_open")]
    /\ UNCHANGED nonInvVars

\* The tenant is resolved from a non-admin token when the parameters carry
\* no tenant_id; an unknown token raises InvalidTokenError, which leaves
\* the connection context by its rollback.
invoke_resolve ==
    /\ inv.pc = "resolve"
    /\ inv' =
          IF inv.api_token # "none" /\ ~inv.is_admin
             /\ inv.params.tenant_id = "absent"
          THEN IF inv.api_token = "tenant_token"
               THEN [inv EXCEPT !.pc = "validate",
                                !.params.tenant_id = "t1",
                                !.trace = Append(@, "token_lookup")]
               ELSE [inv EXCEPT !.pc = "done",
                                !.raised = "InvalidTokenError",
                                !.trace = @ \o <<"token_lookup", "rollback">>]
          ELSE [inv EXCEPT !.pc = "validate"]
    /\ UNCHANGED nonInvVars

\* _coerce_json_params, create_request_model, model_validate
invoke_validate ==
    /\ inv.pc = "validate"
    /\ inv' =
          IF model_validate_raises(_coerce_json_params(inv.params))
          THEN [inv EXCEPT !.pc = "done", !.raised = "ValidationError",
                           !.params = _coerce_json_params(@),
                           !.trace = @ \o <<"validation", "rollback">>]
          ELSE [inv EXCEPT !.pc = "call",
                           !.params = _coerce_json_params(@),
                           !.trace = Append(@, "validation")]
    /\ UNCHANGED nonInvVars

\* return await method(**validated.model_dump()); the context commits when
\* the method returns and rolls back when it raises.
invoke_call(method_raises) ==
    /\ inv.pc = "call"
    /\ inv' = IF method_raises
              THEN [inv EXCEPT !.pc = "done", !.raised = "Exception",
                               !.trace = @ \o <<"method", "rollback">>]
              ELSE [inv EXCEPT !.pc = "done",
                               !.trace = @ \o <<"method", "commit">>]
    /\ UNCHANGED nonInvVars

NextInv ==
    \/ \E method_name \in InvokeNames, params \in InvokeParams,
          api_token \in InvokeTokens, is_admin \in BOOLEAN :
            invoke_begin(method_name, params, api_token, is_admin)
    \/ invoke_connect
    \/ invoke_resolve
    \/ invoke_validate
    \/ \E method_raises \in BOOLEAN : invoke_call(method_raises)

SpecInv == Init /\ [][NextInv]_vars

-----------------------------------------------------------------------------
(***************************************************************************)
(* Part XIII.  Triggers around the storage calls of Table and Query.  An   *)
(* action is one operation made inside a connection context; trace lists   *)
(* the triggers and SQL statements in the order they ran, with the id of   *)
(* the row (0 for a statement that goes by its WHERE).                     *)
(***************************************************************************)

Ev(name, i) == [ev |-> name, id |-> i]
Out(trace, raised, result, rs) ==
    [trace |-> trace, raised |-> raised, result |-> result, rs |-> rs]

\* the rows WHERE grp = g selects
MatchingRows(rs, g) == {i \in TrigIds : rs[i] # NoRow /\ rs[i].grp = g}

\* the order in which the database returns rows without ORDER BY
RECURSIVE ScanSeq(_, _)
ScanSeq(S, scan) ==
    IF S = {} THEN <<>>
    ELSE LET x == IF scan = "asc"
                  THEN CHOOSE y \in S : \A z \in S : y <= z
                  ELSE CHOOSE y \in S : \A z \in S : y >= z
         IN  <<x>> \o ScanSeq(S \ {x}, scan)

\* A connection context that commits whatever its body did.
connection_exit_commit_always(raised, rs_before, rs_after) == rs_after

\* SqlDb.connection(): commit when the body returned, rollback when it raised
connection_exit(raised, rs_before, rs_after) ==
    IF raised = "none" THEN rs_after ELSE rs_before

\* trigger_on_inserting / trigger_on_updating as a subclass overrides them:
\* returns the record, possibly changed
trigger_before(behaviour, record) ==
    IF behaviour = "mutate" THEN [record EXCEPT !.val = Stamp] ELSE record

\* new_pkey_value(): a key no row has
new_pkey_value(rs) == CHOOSE i \in TrigIds : rs[i] = NoRow

\* Table.insert
Table_insert_out(rs, data, raw, before, after) ==
    IF raw
    THEN IF rs[data.id] # NoRow
         THEN Out(<<Ev("sql", 0)>>, "IntegrityError", 0, rs)
         ELSE Out(<<Ev("sql", 0)>>, "none", 1,
                  [rs EXCEPT ![data.id] = [grp |-> data.grp, val |-> data.val]])
    ELSE IF before = "raise"
    THEN Out(<<Ev("on_inserting", 0)>>, "TriggerError", 0, rs)
    ELSE LET pk == IF data.id = 0 THEN new_pkey_value(rs) ELSE data.id
             record == trigger_before(before,
                                      [grp |-> data.grp, val |-> data.val])
             rs2 == [rs EXCEPT ![pk] = record]
         IN  IF rs[pk] # NoRow
             THEN Out(<<Ev("on_inserting", 0), Ev("sql", 0)>>,
                      "IntegrityError", 0, rs)
             ELSE IF after = "raise"
             THEN Out(<<Ev("on_inserting", 0), Ev("sql", 0),
                        Ev("on_inserted", 0)>>, "TriggerError", 0, rs2)
             ELSE Out(<<Ev("on_inserting", 0), Ev("sql", 0),
                        Ev("on_inserted", 0)>>, "none", 1, rs2)

\* db.update(name, values, where)
db_update(rs, val, g) ==
    [i \in TrigIds |-> IF i \in MatchingRows(rs, g)
                       THEN [rs[i] EXCEPT !.val = val] ELSE rs[i]]

\* db.delete(name, where)
db_delete(rs, g) ==
    [i \in TrigIds |-> IF i \in MatchingRows(rs, g) THEN NoRow ELSE rs[i]]

\* Table.update; the triggers run once, with the first row that
\* select_for_update returns as old_record
Table_update_out(rs, val, g, raw, before, after) ==
    LET n == Cardinality(MatchingRows(rs, g))
    IN  IF raw
        THEN Out(<<Ev("sql", 0)>>, "none", n, db_update(rs, val, g))
        ELSE IF before = "raise"
        THEN Out(<<Ev("on_updating", 0)>>, "TriggerError", 0, rs)
        ELSE LET record == trigger_before(before, [grp |-> g, val |-> val])
                 rs2 == db_update(rs, record.val, g)
             IN  IF n > 0
                 THEN IF after = "raise"
                      THEN Out(<<Ev("on_updating", 0), Ev("sql", 0),
                                 Ev("on_updated", 0)>>, "TriggerError", 0, rs2)
                      ELSE Out(<<Ev("on_updating", 0), Ev("sql", 0),
                                 Ev("on_updated", 0)>>, "none", n, rs2)
                 ELSE Out(<<Ev("on_updating", 0), Ev("sql", 0)>>, "none", 0,
                          rs2)

\* Table.delete; rec = self.record(where=where, ignore_missing=True) raises
\* RecordDuplicateError when more than one row matches
Table_delete_out(rs, g, raw, before, after) ==
    LET n == Cardinality(MatchingRows(rs, g))
    IN  IF raw
        THEN Out(<<Ev("sql", 0)>>, "none", n, db_delete(rs, g))
        ELSE IF n > 1
        THEN Out(<<>>, "RecordDuplicateError", 0, rs)
        ELSE IF n = 0
        THEN Out(<<Ev("sql", 0)>>, "none", 0, rs)
        ELSE IF before = "raise"
        THEN Out(<<Ev("on_deleting", 0)>>, "TriggerError", 0, rs)
        ELSE IF after = "raise"
        THEN Out(<<Ev("on_deleting", 0), Ev("sql", 0), Ev("on_deleted", 0)>>,
                 "TriggerError", 0, db_delete(rs, g))
        ELSE Out(<<Ev("on_deleting", 0), Ev("sql", 0), Ev("on_deleted", 0)>>,
                 "none", n, db_delete(rs, g))

\* Query._execute_select: the matching rows, cut by the query's LIMIT
\* (limit 0 stands for no limit)
_execute_select(rs, g, limit, scan) ==
    LET all == ScanSeq(MatchingRows(rs, g), scan)
    IN  IF limit # 0 /\ Len(all) > limit THEN SubSeq(all, 1, limit) ELSE all

\* the loop of Query._execute_delete_with_triggers
RECURSIVE delete_loop(_, _, _, _, _, _)
delete_loop(rs, recs, before, after, trace, deleted) ==
    IF recs = <<>> THEN Out(trace, "none", deleted, rs)
    ELSE LET i == Head(recs)
             rs2 == [rs EXCEPT ![i] = NoRow]
         IN  IF before = "raise"
             THEN Out(Append(trace, Ev("on_deleting", i)), "TriggerError",
                      deleted, rs)
             ELSE IF after = "raise"
             THEN Out(trace \o <<Ev("on_deleting", i), Ev("sql", i),
                                 Ev("on_deleted", i)>>, "TriggerError",
                      deleted, rs2)
             ELSE delete_loop(rs2, Tail(recs), before, after,
                              trace \o <<Ev("on_deleting", i), Ev("sql", i),
                                         Ev("on_deleted", i)>>, deleted + 1)

\* Query.delete
Query_delete_out(rs, g, limit, raw, before, after, scan) ==
    IF raw
    THEN Out(<<Ev("sql", 0)>>, "none", Cardinality(MatchingRows(rs, g)),
             db_delete(rs, g))
    ELSE delete_loop(rs, _execute_select(rs, g, limit, scan), before, after,
                     <<>>, 0)

\* the loop of Query._execute_update_with_triggers
RECURSIVE update_loop(_, _, _, _, _, _, _)
update_loop(rs, recs, val, before, after, trace, updated) ==
    IF recs = <<>> THEN Out(trace, "none", updated, rs)
    ELSE LET i == Head(recs)
             new_record == trigger_before(before, [rs[i] EXCEPT !.val = val])
             rs2 == [rs EXCEPT ![i] = new_record]
         IN  IF before = "raise"
             THEN Out(Append(trace, Ev("on_updating", i)), "TriggerError",
                      updated, rs)
             ELSE IF after = "raise"
             THEN Out(trace \o <<Ev("on_updating", i), Ev("sql", i),
                                 Ev("on_updated", i)>>, "TriggerError",
                      updated, rs2)
             ELSE update_loop(rs2, Tail(recs), val, before, after,
                              trace \o <<Ev("on_updating", i), Ev("sql", i),
                                         Ev("on_updated", i)>>, updated + 1)

\* Query.update
Query_update_out(rs, val, g, limit, raw, before, after, scan) ==
    IF raw
    THEN Out(<<Ev("sql", 0)>>, "none", Cardinality(MatchingRows(rs, g)),
             db_update(rs, val, g))
    ELSE update_loop(rs, _execute_select(rs, g, limit, scan), val, before,
                     after, <<>>, 0)

\* the operation, made inside a connection context
Operation(kind, out, raw, id, g, limit, before) ==
    /\ table_rows' = connection_exit(out.raised, table_rows, out.rs)
    /\ last_op' = [kind |-> kind, raw |-> raw, id |-> id, grp |-> g,
                   limit |-> limit, before |-> before, trace |-> out.trace,
                   raised |-> out.raised, result |-> out.result]
    /\ UNCHANGED nonTrigVars

Table_insert_op(id, g, val, raw, before, after) ==
    /\ raw => id # 0
    /\ id = 0 => \E i \in TrigIds : table_rows[i] = NoRow
    /\ Operation("insert",
                 Table_insert_out(table_rows,
                                  [id |-> id, grp |-> g, val |-> val],
                                  raw, before, after),
                 raw, id, g, 0, before)

Table_update_op(val, g, raw, before, after) ==
    Operation("update",
              Table_update_out(table_rows, val, g, raw, before, after),
              raw, 0, g, 0, before)

Table_delete_op(g, raw, before, after) ==
    Operation("delete", Table_delete_out(table_rows, g, raw, before, after),
              raw, 0, g, 0, before)

Query_update_op(val, g, limit, raw, before, after, scan) ==
    Operation("query_update",
              Query_update_out(table_rows, val, g, limit, raw, before, after,
                               scan),
              raw, 0, g, limit, before)

Query_delete_op(g, limit, raw, before, after, scan) ==
    Operation("query_delete",
              Query_delete_out(table_rows, g, limit, raw, before, after, scan),
              raw, 0, g, limit, before)

NextTrig ==
    \/ \E id \in {0} \cup TrigIds, g \in RowGroups, val \in RowVals,
          raw \in BOOLEAN, before \in BeforeTriggers, after \in AfterTriggers :
            Table_insert_op(id, g, val, raw, before, after)
    \/ \E val \in RowVals, g \in RowGroups, raw \in BOOLEAN,
          before \in BeforeTriggers, after \in AfterTriggers :
            Table_update_op(val, g, raw, before, after)
    \/ \E g \in RowGroups, raw \in BOOLEAN, before \in BeforeTriggers,
          after \in AfterTriggers :
            Table_delete_op(g, raw, before, after)
    \/ \E val \in RowVals, g \in RowGroups, limit \in Limits, raw \in BOOLEAN,
          before \in BeforeTriggers, after \in AfterTriggers, scan \in ScanOrders :
            Query_update_op(val, g, limit, raw, before, after, scan)
    \/ \E g \in RowGroups, limit \in Limits, raw \in BOOLEAN,
          before \in BeforeTriggers, after \in AfterTriggers, scan \in ScanOrders :
            Query_delete_op(g, limit, raw, before, after, scan)

SpecTrig == Init /\ [][NextTrig]_vars

-----------------------------------------------------------------------------
(***************************************************************************)
(* Part XIV.  TenantsTable.suspend_batch, activate_batch and               *)
(* is_batch_suspended on the suspended_batches column.                     *)
(***************************************************************************)

\* the code point of a character
ord(c) ==
    IF c = "*" THEN 42 ELSE IF c = "," THEN 44 ELSE IF c = "a" THEN 97 ELSE 98

\* s < t for Python strings
RECURSIVE str_lt(_, _)
str_lt(s, t) ==
    IF t = <<>> THEN FALSE
    ELSE IF s = <<>> THEN TRUE
    ELSE IF Head(s) # Head(t) THEN ord(Head(s)) < ord(Head(t))
    ELSE str_lt(Tail(s), Tail(t))

\* s.split(",")
RECURSIVE str_split(_)
str_split(s) ==
    IF \E j \in DOMAIN s : s[j] = ","
    THEN LET j == CHOOSE k \in DOMAIN s :
                     s[k] = "," /\ \A l \in 1..(k - 1) : s[l] # ","
         IN  <<SubSeq(s, 1, j - 1)>> \o str_split(SubSeq(s, j + 1, Len(s)))
    ELSE <<s>>

\* sorted(batches)
RECURSIVE sorted(_)
sorted(S) ==
    IF S = {} THEN <<>>
    ELSE LET x == CHOOSE y \in S : \A z \in S \ {y} : str_lt(y, z)
         IN  <<x>> \o sorted(S \ {x})

\* ",".join(parts)
RECURSIVE str_join(_)
str_join(parts) ==
    IF parts = <<>> THEN <<>>
    ELSE IF Len(parts) = 1 THEN parts[1]
    ELSE parts[1] \o <<",">> \o str_join(Tail(parts))

\* set(current.split(",")) if current else set(), then discard("")
batches_of(current) ==
    IF current = <<>> THEN {}
    ELSE {str_split(current)[j] : j \in DOMAIN str_split(current)} \ {<<>>}

\* rec.get("suspended_batches") or ""
current_of(v) == IF v.type = "none" THEN <<>> ELSE v.s

\* TenantsTable.is_batch_suspended
is_batch_suspended(v, batch_code) ==
    IF current_of(v) = <<>> THEN FALSE
    ELSE IF v.s = <<"*">> THEN TRUE
    ELSE IF batch_code.type = "none" THEN FALSE
    ELSE batch_code.s \in
            {str_split(v.s)[j] : j \in DOMAIN str_split(v.s)}

\* TenantsTable.suspend_batch on an existing tenant: the value written
suspend_batch_value(v, batch_code) ==
    IF batch_code.type = "none" THEN StrV(<<"*">>)
    ELSE IF current_of(v) = <<"*">> THEN v
    ELSE StrV(str_join(sorted(batches_of(current_of(v)) \cup {batch_code.s})))

\* TenantsTable.activate_batch on an existing tenant: the value written
activate_batch_value(v, batch_code) ==
    IF batch_code.type = "none" THEN NoneV
    ELSE IF current_of(v) = <<"*">> THEN v
    ELSE LET batches == batches_of(current_of(v)) \ {batch_code.s}
         IN  IF batches # {} THEN StrV(str_join(sorted(batches))) ELSE NoneV

suspend_batch(tenant_id, batch_code) ==
    /\ suspended_batches' =
          [suspended_batches EXCEPT
             ![tenant_id] = suspend_batch_value(@, batch_code)]
    /\ batchCall' = [op |-> "suspend_batch", tenant_id |-> tenant_id,
                     batch_code |-> batch_code, result |-> TRUE]
    /\ UNCHANGED nonBatchVars

activate_batch(tenant_id, batch_code) ==
    /\ suspended_batches' =
          [suspended_batches EXCEPT
             ![tenant_id] = activate_batch_value(@, batch_code)]
    /\ batchCall' =
          [op |-> "activate_batch", tenant_id |-> tenant_id,
           batch_code |-> batch_code,
           result |-> ~(batch_code.type # "none"
                         /\ current_of(suspended_batches[tenant_id])
                              = <<"*">>)]
    /\ UNCHANGED nonBatchVars

\* is_batch_suspended(tenant["suspended_batches"], batch_code)
is_batch_suspended_call(tenant_id, batch_code) ==
    /\ batchCall' = [op |-> "is_batch_suspended", tenant_id |-> tenant_id,
                     batch_code |-> batch_code,
                     result |-> is_batch_suspended(
                                   suspended_batches[tenant_id], batch_code)]
    /\ UNCHANGED suspended_batches
    /\ UNCHANGED nonBatchVars

NextBatch ==
    \/ \E t \in BatchTenants, c \in BatchCodes : suspend_batch(t, c)
    \/ \E t \in BatchTenants, c \in BatchCodes : activate_batch(t, c)
    \/ \E t \in BatchTenants, c \in BatchCodes : is_batch_suspended_call(t, c)

SpecBatch == Init /\ [][NextBatch]_vars

TypeOK ==
    /\ backend \in Backends
    /\ \A t \in Tasks : pc[t] \in {"idle", "body", "commit", "rollback", "finally"}
    /\ \A t \in Tasks : Len(frames[t]) <= MaxDepth
    /\ \A t \in Tasks : (pc[t] = "idle") <=> (frames[t] = <<>>)

-----------------------------------------------------------------------------
(***************************************************************************)
(* Properties of the connection context.                                   *)
(***************************************************************************)

Released(c) == connState[c] = "released"

\* The data columns of committed rows that carry the tag of request c.
CommittedBy(c) ==
    {<<k, col>> \in Keys \X DataCols :
        Truthy(committed[k]) /\ committed[k][col] = c}

\* C1: every use of SqlDb.connection() acquires one connection and binds it
\* to the running task; a body that finishes normally is followed by exactly
\* one commit (and, when nothing is raised, the transaction is committed); a
\* body that raises an exception is followed by exactly one rollback and no
\* commit, its writes are never committed and an exception reaches the
\* caller; on every exit path, a failing commit or rollback and a
\* cancellation included, the connection is released exactly once, and it is
\* never released while its context is still running.
C1_ConnectionCommitRollbackRelease ==
    /\ \A t \in Tasks :
          pc[t] # "idle" =>
              /\ SqlDb_conn(t) = Req(t)
              /\ owner[Req(t)] = t
              /\ connState[Req(t)] = "open"
    /\ \A c \in Conns :
          /\ connState[c] = "open" => hist[c].releases = 0
          /\ Released(c) =>
              /\ hist[c].releases = 1
              /\ hist[c].body \in {"ok", "Exception", "CancelledError"}
              /\ hist[c].body = "ok" =>
                    /\ hist[c].commits = 1
                    /\ hist[c].propagated = "none" =>
                          hist[c].outcome = "committed" /\ hist[c].rollbacks = 0
              /\ hist[c].body = "Exception" =>
                    /\ hist[c].commits = 0
                    /\ hist[c].rollbacks = 1
                    /\ hist[c].outcome # "committed"
                    /\ hist[c].propagated = "Exception"
                    /\ CommittedBy(c) = {}

\* Witness of C1: one context has committed its write on normal exit and
\* another has rolled its write back after its body raised.
C1_Witness ==
    \E c, d \in Conns :
        /\ Released(c) /\ hist[c].body = "ok" /\ hist[c].outcome = "committed"
        /\ hist[c].writes > 0 /\ CommittedBy(c) # {}
        /\ Released(d) /\ hist[d].body = "Exception" /\ hist[d].rollbacks = 1
        /\ hist[d].writes > 0

\* C2: when a request body raises after its first write, none of its
\* writes is ever part of the committed database, whatever it wrote and
\* whatever other requests commit meanwhile.
C2_RaiseAfterWriteCommitsNothing ==
    \A c \in Conns :
        hist[c].body = "Exception" => CommittedBy(c) = {}

\* Witness of C2: a request made two writes, raised, and its context is over.
C2_Witness ==
    \E c \in Conns :
        /\ Released(c) /\ hist[c].body = "Exception"
        /\ hist[c].writes = 2 /\ hist[c].commits = 0

\* C3 (as claimed): a context whose body was cancelled has rolled the
\* transaction back by the time it has released its connection, and none of
\* the request's writes is committed.
C3_CancelRollsBack ==
    \A c \in Conns :
        (Released(c) /\ hist[c].body = "CancelledError") =>
            (hist[c].rollbacks = 1 /\ CommittedBy(c) = {})

\* C4: in every task, SqlDb.conn is either unset or a connection that this
\* task acquired and has not released; inside a context it is the
\* connection of the task's innermost context, outside it is unset.
C4_TaskLocalConnection ==
    \A t \in Tasks :
        /\ SqlDb_conn(t) # 0 =>
              /\ owner[SqlDb_conn(t)] = t
              /\ connState[SqlDb_conn(t)] = "open"
        /\ frames[t] # <<>> => SqlDb_conn(t) = Req(t)
        /\ frames[t] = <<>> => SqlDb_conn(t) = 0

\* Witness of C4: two tasks are inside connection() at once, each with its
\* own connection, and one of them has written on it.
C4_Witness ==
    \E t, u \in Tasks :
        /\ t # u /\ pc[t] = "body" /\ pc[u] = "body"
        /\ SqlDb_conn(t) # 0 /\ SqlDb_conn(u) # 0
        /\ SqlDb_conn(t) # SqlDb_conn(u)
        /\ hist[SqlDb_conn(t)].writes > 0

\* C5 (as claimed): no record_to_update context writes, at its exit, a
\* record read before another transaction changed the row.
C5_NoLostUpdate ==
    \A c \in Conns : ~hist[c].staleWrite

\* C5 (amended): with for_update left on and a backend that renders a
\* FOR UPDATE clause, the row a record_to_update context writes at exit is
\* unchanged since the context read it.
C5_NoLostUpdateUnderRowLock ==
    \A c \in Conns :
        (backend = "postgresql" /\ hist[c].rus = 1 /\ hist[c].for_update)
            => ~hist[c].staleWrite

\* Witness of C5: under PostgreSQL two requests have each edited row 1
\* through record_to_update with for_update and committed, and the row
\* carries the edits of both.
C5_Witness ==
    /\ backend = "postgresql"
    /\ \E c, d \in Conns :
        /\ c # d /\ owner[c] # owner[d]
        /\ hist[c].for_update /\ hist[d].for_update
        /\ hist[c].ruKey = 1 /\ hist[d].ruKey = 1
        /\ hist[c].outcome = "committed" /\ hist[d].outcome = "committed"
        /\ committed[1]["a"] = c /\ committed[1]["b"] = d

\* C10 (as claimed): a call made outside any connection context fails with
\* an error.
C10_OutsideCallFails ==
    lastCall.op # "none" => lastCall.outcome = "RuntimeError"

-----------------------------------------------------------------------------
(***************************************************************************)
(* Properties of the authentication layer.                                 *)
(***************************************************************************)

\* Tenants for which tok is a live key: the digest of tok equals the row's
\* api_key_hash and the row's expiry is null or has not passed.
LiveTenants(tok) ==
    {tid \in TenantIds :
        /\ tenants[tid].exists
        /\ tenants[tid].api_key_hash = sha256(tok)
        /\ \/ tenants[tid].api_key_expires_at.isNone
           \/ tenants[tid].api_key_expires_at.value >= now}

\* C6: every invocation made with a live tenant's token by a non-admin
\* caller executes with tenant_id equal to the token's tenant, whatever the
\* request's parameters: an add stores its row under that tenant, and a get
\* of an id the tenant does not own answers 404.
C6_TenantTokenBindsTenant ==
    (/\ resp.route = "regular"
     /\ resp.token # NoToken
     /\ ~resp.is_admin
     /\ LiveTenants(resp.token) # {}
     /\ resp.status # 401)
    => \A own \in LiveTenants(resp.token) :
          /\ resp.executed => resp.tenant_id = own
          /\ (resp.method = "add" /\ resp.status = 200)
                => <<own, resp.params.id>> \in accounts
          /\ (resp.method = "get" /\ <<own, resp.params.id>> \notin accounts)
                => resp.status = 404

\* C7: the auth matrix of the regular /api routes, for every method and
\* parameter map: no token and no admin token configured is let in as
\* non-admin; no token with an admin token configured is 401; the admin
\* token is let in as admin; a live tenant's token is let in; any other
\* token is 401 and the endpoint method is not executed.
C7_RegularAuthMatrix ==
    resp.route = "regular" =>
        /\ (resp.token = NoToken /\ expected = None)
              => (resp.status # 401 /\ ~resp.is_admin)
        /\ (resp.token = NoToken /\ expected # None)
              => (resp.status = 401 /\ ~resp.executed)
        /\ (resp.token # NoToken /\ resp.token = expected)
              => (resp.status # 401 /\ resp.is_admin)
        /\ (resp.token # NoToken /\ resp.token # expected
              /\ LiveTenants(resp.token) # {})
              => resp.status # 401
        /\ (resp.token # NoToken /\ resp.token # expected
              /\ LiveTenants(resp.token) = {})
              => (resp.status = 401 /\ ~resp.executed)

\* C8: on an admin-only route a request without token is let in only when
\* no admin token is configured and is 401 otherwise; the admin token is
\* let in; a live tenant's token is 403; any other token is 401.
C8_AdminGateMatrix ==
    resp.route = "admin" =>
        /\ (resp.token = NoToken /\ expected = None) => resp.status = 200
        /\ (resp.token = NoToken /\ expected # None) => resp.status = 401
        /\ (resp.token # NoToken /\ resp.token = expected)
              => resp.status = 200
        /\ (resp.token # NoToken /\ resp.token # expected
              /\ LiveTenants(resp.token) # {}) => resp.status = 403
        /\ (resp.token # NoToken /\ resp.token # expected
              /\ LiveTenants(resp.token) = {}) => resp.status = 401

\* C9: get_tenant_by_token returns a tenant exactly when the presented
\* token's digest matches a row whose expiry is null or has not passed; a
\* matching row with a non-null expiry in the past, or no matching row,
\* yields no tenant.
C9_ExpiredOrUnknownTokenInvalid ==
    resp.looked_up =>
        /\ resp.tenant # None => resp.tenant \in LiveTenants(resp.token)
        /\ resp.tenant = None => LiveTenants(resp.token) = {}

\* C11: on every regular route, GET or POST, the response is determined by
\* the kind of outcome of invoke: success is 200 with {data: ...}, a
\* validation error 422, a value error (record or method not found) 404, an
\* invalid token 401, and any other exception 500, the last three error
\* bodies under {error: ...}.
C11_ResponseMapping ==
    (resp.route = "regular" /\ resp.raised # "not_invoked") =>
        /\ get_http_method(resp.method) \in {"GET", "POST"}
        /\ resp.raised = "none" => (resp.status = 200 /\ resp.body = "data")
        /\ resp.raised = "ValidationError"
              => (resp.status = 422 /\ resp.body = "error")
        /\ resp.raised = "ValueError"
              => (resp.status = 404 /\ resp.body = "error")
        /\ resp.raised = "InvalidTokenError" => resp.status = 401
        /\ resp.raised \notin {"none", "ValidationError", "ValueError",
                               "InvalidTokenError"}
              => (resp.status = 500 /\ resp.body = "error")

\* A POST whose method raised neither of the mapped kinds, answered 500.
C11_Witness ==
    /\ resp.route = "regular"
    /\ get_http_method(resp.method) = "POST"
    /\ resp.raised = "IntegrityError"
    /\ resp.status = 500

-----------------------------------------------------------------------------
(***************************************************************************)
(* Properties of the channel factories.                                    *)
(***************************************************************************)

\* A method is discoverable: public, asynchronous, not internal.
Discoverable(n) ==
    /\ methods[n].defined
    /\ methods[n].is_async
    /\ ~startswith_underscore(n)
    /\ n \notin internal_methods

\* C12: a method is reachable on a channel exactly when the endpoint exposes
\* it there: the HTTP factory registers one route, with the resolved verb and
\* the dashed path, for each discoverable method whose api axis is on and no
\* other route; the CLI factory creates the dashed subcommand of each
\* discoverable method whose cli axis is on and no other subcommand.
C12_ReachableIffExposed ==
    /\ "api" \in registered =>
          routes = {<<http_verb(n), route_path(n)>> :
                      n \in {x \in MethodNames :
                               /\ Discoverable(x)
                               /\ is_available_for_channel(x, "api")}}
    /\ "cli" \in registered =>
          commands = {replace_underscore(n) :
                        n \in {x \in MethodNames :
                                 /\ Discoverable(x)
                                 /\ is_available_for_channel(x, "cli")}}

-----------------------------------------------------------------------------
(***************************************************************************)
(* Properties of the RecordUpdater context.                                *)
(***************************************************************************)

\* C13: a record_to_update context opened on a key with no row, with neither
\* insert_missing nor ignore_missing, raises not-found at exit and writes
\* nothing.
C13_MissingRowRaisesAtExit ==
    (/\ ruDone.exit \notin {"none", "body_raised"}
     /\ ruDone.absent
     /\ ~ruDone.insert_missing
     /\ ~ruDone.ignore_missing)
    => (ruDone.exit = "not_found" /\ ruDone.write = "none")

\* C14 (as claimed): a successful exit of a record_to_update context issues
\* exactly one write, an insert if the record was seeded and an update by key
\* otherwise, with its triggers fired; an exit after the body raised issues
\* no write.
C14_ExitWritesOnce ==
    /\ ruDone.exit = "returned" =>
          /\ ruDone.write = IF ruDone.absent /\ ruDone.insert_missing
                            THEN "insert" ELSE "update"
          /\ ruDone.triggers
    /\ ruDone.exit = "body_raised" => ruDone.write = "none"

\* C14 (amended): a successful exit issues an insert if the record was
\* seeded, an update by key if a row was read on entry, and no write when
\* the row was absent and not seeded; the triggers of the write fire unless
\* the context was opened with raw; an exit after the body raised issues no
\* write and fires no trigger.
C14_ExitWritesOnceWhenRowOrSeed ==
    /\ ruDone.exit = "returned" =>
          /\ ruDone.write =
                IF ruDone.absent /\ ruDone.insert_missing THEN "insert"
                ELSE IF ~ruDone.absent THEN "update"
                ELSE "none"
          /\ ruDone.triggers <=> (ruDone.write # "none" /\ ~ruDone.raw)
    /\ ruDone.exit = "body_raised" =>
          (ruDone.write = "none" /\ ~ruDone.triggers)

\* Witness of C14: a context seeded for an absent row has exited normally
\* with its insert and the insert triggers.
C14_Witness ==
    /\ ruDone.exit = "returned"
    /\ ruDone.absent /\ ruDone.insert_missing
    /\ ruDone.write = "insert"
    /\ ruDone.triggers

-----------------------------------------------------------------------------
(***************************************************************************)
(* Properties of Table.record.                                             *)
(***************************************************************************)

\* C15: for every combination of its options, Table.record raises not-found
\* when no row matches unless ignore_missing is set, and then returns an
\* empty map; when more than one row matches it raises duplicate-record
\* unless ignore_duplicate is set, and then returns the first row.
C15_RecordMissingAndDuplicate ==
    recCall.where # "none" =>
        LET S == Matching(recCall.where)
        IN  /\ S = {} =>
                  recCall.result = IF recCall.ignore_missing THEN "empty"
                                   ELSE "RecordNotFoundError"
            /\ Cardinality(S) > 1 =>
                  IF recCall.ignore_duplicate
                  THEN /\ recCall.result = "row"
                       /\ recCall.row = FirstN(S, 1)[1]
                  ELSE recCall.result = "RecordDuplicateError"

-----------------------------------------------------------------------------
(***************************************************************************)
(* Properties of discovery.                                                *)
(***************************************************************************)

\* The class the claim expects for the classes seen: of two related classes
\* the subclass, of two unrelated classes the first seen.
ExpectedOfTwo(sq) ==
    IF {sq[1], sq[2]} = {"Base", "Derived"} THEN "Derived" ELSE sq[1]

\* C16: whenever exactly two classes have been contributed under a name, in
\* one discover call or over successive calls and in either order, the
\* registered class is the subclass if one extends the other and the
\* first-seen class if they are unrelated; for tables and for endpoints.
C16_MostDerivedOrFirstSeen ==
    /\ Len(seen["tables"]) = 2 => tables = ExpectedOfTwo(seen["tables"])
    /\ Len(seen["endpoints"]) = 2
          => endpoints = ExpectedOfTwo(seen["endpoints"])

\* Witness of C16: the subclass was scanned first in the table registry and
\* last, in a later call, in the endpoint registry, and both registries hold
\* it.
C16_Witness ==
    /\ seen["tables"] = <<"Derived", "Base">>
    /\ seen["endpoints"] = <<"Base", "Derived">>
    /\ discovers["endpoints"] = 2
    /\ tables = "Derived"
    /\ endpoints = "Derived"

-----------------------------------------------------------------------------
\* C17: for every record written to a table with JSON and encrypted columns,
\* reading it back succeeds and returns, column by column, the value that
\* was written: JSON columns structurally equal, encrypted columns equal
\* after decryption, also for a column that is both; with no key configured
\* the encrypted columns come back as the plaintext written.
C17_WriteReadRoundTrip ==
    readBack.done =>
        /\ readBack.raised = "none"
        /\ Len(readBack.rows) = Len(written)
        /\ \A i \in DOMAIN written : \A c \in Columns :
              readBack.rows[i][c] = written[i][c]

\* C18: when neither the environment variable nor the secrets file supplies
\* a key, every EncryptionManager.encrypt and .decrypt call returns its
\* input unchanged and does not fail.
C18_UnconfiguredIsNoOp ==
    (/\ encCall.op # "none"
     /\ environ # "key32"
     /\ secrets_file # "key32") =>
        /\ encCall.raised = "none"
        /\ encCall.result = encCall.arg

-----------------------------------------------------------------------------
\* The predicates an expression refers to, by position.
Referenced ==
    {i \in DOMAIN built.where.expr : built.where.expr[i].k = "ref"}

RefCond(i) == conditions_get(built.conditions, built.where.expr[i].name)

\* C19: in every build of an expression over named predicates, a predicate
\* IN with an empty list renders as 1=0 and NOT IN with an empty list as
\* 1=1; and when the expression refers to an undefined $name, or to a
\* predicate with an operator outside the closed set, or to a BETWEEN whose
\* list has not exactly two elements, the build raises and returns no SQL.
C19_QueryBuilderSafety ==
    (built.done /\ built.where.kind = "expr") =>
        /\ \A j \in DOMAIN built.rendered :
              LET cond == built.conditions[built.rendered[j].name]
              IN (upper(cond.op) \in {"IN", "NOT IN"}
                    /\ cond.value = [type |-> "list", len |-> 0]) =>
                  built.rendered[j].sql =
                      <<lit(IF upper(cond.op) = "IN" THEN "1=0" ELSE "1=1")>>
        /\ built.raised = "none" =>
              Len(built.rendered) = Cardinality(Referenced)
        /\ (\E i \in Referenced :
               \/ RefCond(i) = Undefined
               \/ upper(RefCond(i).op) \notin OPERATORS
               \/ /\ upper(RefCond(i).op) = "BETWEEN"
                  /\ ~(RefCond(i).value.type = "list"
                        /\ RefCond(i).value.len = 2)) =>
              /\ built.raised # "none"
              /\ built.sql = <<>>
              /\ built.params = {}

\* An expression whose two predicates are an empty IN (written in lower
\* case) and an empty NOT IN was built.
C19_Witness ==
    /\ built.done
    /\ built.where.expr = <<ref("a"), lit("AND"), ref("b")>>
    /\ built.conditions["a"] =
          [column |-> "col", op |-> "in", value |-> [type |-> "list", len |-> 0]]
    /\ built.conditions["b"] =
          [column |-> "col", op |-> "NOT IN",
           value |-> [type |-> "list", len |-> 0]]
    /\ built.raised = "none"
    /\ built.sql = <<lit("("), lit("1=0"), lit(")"), lit("AND"),
                     lit("("), lit("1=1"), lit(")")>>

-----------------------------------------------------------------------------
\* The times, in milliseconds after the first signal, at which the wait
\* loop looks at the process.
PollTimes == {n * poll_ms : n \in 1..iterations}

\* C20: stop sends SIGTERM, or SIGKILL when force, polls every 100 ms for up
\* to five seconds, then escalates to SIGKILL and polls once more; every
\* instance it reports as stopped has no process and no PID file, its death
\* having been seen at one of those polls; stop("*") goes through every
\* instance that was running when it was called.
C20_StopProtocol ==
    /\ \A i \in Instances :
          LET s == stopCall.sent[i]
          IN /\ Len(s) <= 2
             /\ Len(s) >= 1 =>
                   s[1] = [sig |-> IF stopCall.force THEN "SIGKILL"
                                   ELSE "SIGTERM", at |-> 0]
             /\ Len(s) = 2 =>
                   /\ ~stopCall.force
                   /\ s[2] = [sig |-> "SIGKILL", at |-> timeout_ms]
             /\ i \in stopCall.stopped =>
                   /\ ~alive[i]
                   /\ ~pid_file[i]
                   /\ Len(s) >= 1
                   /\ IF Len(s) = 1
                      THEN stopCall.confirmed_at[i] \in PollTimes
                      ELSE stopCall.confirmed_at[i] =
                               timeout_ms + escalation_wait_ms
    /\ stopCall.pc = "poll" => stopCall.polls < iterations
    /\ stopCall.pc \in {"escalate", "final_poll"} =>
          stopCall.polls * poll_ms = timeout_ms
    /\ stopCall.pc = "done" =>
          /\ stopCall.attempted = stopCall.listed
          /\ stopCall.stopped \subseteq stopCall.listed

\* stop("*") ended having stopped both instances, the first after the
\* escalation to SIGKILL and the second within the five seconds.
C20_Witness ==
    /\ stopCall.pc = "done"
    /\ stopCall.name = "*"
    /\ ~stopCall.force
    /\ stopCall.stopped = Instances
    /\ Len(stopCall.sent["inst1"]) = 2
    /\ stopCall.confirmed_at["inst2"] = poll_ms
    /\ \A i \in Instances : ~alive[i] /\ ~pid_file[i]

-----------------------------------------------------------------------------
\* The processes spawned so far and the calls that went on to start the
\* instance.
Spawned == {k \in Children : children[k] # "none"}
Starter(c) ==
    serveCalls[c].spawned # 0 \/ serveCalls[c].result = "foreground"

\* C21: for any interleaving of serve calls on one instance at most one
\* server process is spawned for it, and every other call returns the
\* already-running status without spawning.
C21_AtMostOneSpawn ==
    /\ Cardinality(Spawned) <= 1
    /\ Cardinality({c \in Callers : Starter(c)}) <= 1
    /\ \A c \in Callers :
          (serveCalls[c].pc = "done" /\ ~Starter(c)) =>
              serveCalls[c].result = "already_running"

-----------------------------------------------------------------------------
\* C22: once the server process of an instance has exited, by a signal or
\* by a normal shutdown, its server.pid file no longer exists: a PID file
\* is present only while its process is running.
C22_PidFileOnlyWhileRunning ==
    \A i \in Instances : pid_file[i] => alive[i]

-----------------------------------------------------------------------------
\* What the .current file of the last call names, read off its content.
FileInstance ==
    IF ctx.current \in {<<"c_inst">>, <<"c_inst", "/", "c_ten">>,
                        <<"c_inst", "/">>}
    THEN "c_inst" ELSE Unset
FileTenant ==
    IF ctx.current \in {<<"c_inst", "/", "c_ten">>, <<"/", "c_ten">>}
    THEN "c_ten" ELSE Unset

\* C23: the instance and the tenant each come from the first source that
\* supplies one, in the order flag, environment, .current file and, for the
\* instance only, the single existing instance; with zero or several
\* instances none is auto-selected; require_context exits with code 1
\* exactly when the instance, or a required tenant, is not resolved.
C23_ContextPriority ==
    ctx.done =>
        /\ ctx.explicit_instance # Unset =>
              ctx.instance = ctx.explicit_instance
        /\ (ctx.explicit_instance = Unset /\ ctx.env_instance # Unset) =>
              ctx.instance = ctx.env_instance
        /\ (ctx.explicit_instance = Unset /\ ctx.env_instance = Unset
               /\ FileInstance # Unset) =>
              ctx.instance = FileInstance
        /\ (ctx.explicit_instance = Unset /\ ctx.env_instance = Unset
               /\ FileInstance = Unset) =>
              IF ctx.instances = {"only"} THEN ctx.instance = "only"
              ELSE ctx.instance = Unset
        /\ ctx.explicit_tenant # Unset => ctx.tenant = ctx.explicit_tenant
        /\ (ctx.explicit_tenant = Unset /\ ctx.env_tenant # Unset) =>
              ctx.tenant = ctx.env_tenant
        /\ (ctx.explicit_tenant = Unset /\ ctx.env_tenant = Unset) =>
              ctx.tenant = FileTenant
        /\ ctx.exit_code = 1 <=>
              (ctx.instance = Unset
                 \/ (ctx.require_tenant /\ ctx.tenant = Unset))
        /\ ctx.exit_code \in {0, 1}

\* A call with flag, environment and file all naming an instance took the
\* flag, and took the tenant from the file for want of a better source.
C23_Witness ==
    /\ ctx.done
    /\ ctx.explicit_instance = "x_inst"
    /\ ctx.env_instance = "e_inst"
    /\ ctx.current = <<"c_inst", "/", "c_ten">>
    /\ ctx.explicit_tenant = Unset
    /\ ctx.env_tenant = Unset
    /\ ctx.instance = "x_inst"
    /\ ctx.tenant = "c_ten"
    /\ ctx.exit_code = 0

-----------------------------------------------------------------------------
\* C24: ProxyBase.init never fails; run again with nothing new declared it
\* leaves the schema and the rows as they were; run after a new column was
\* declared it leaves the table with that column, and every value a row
\* already had is unchanged.
C24_SyncIdempotentAndAdditive ==
    initLog.done =>
        /\ initLog.raised = "none"
        /\ dbTable.exists
        /\ dbTable.columns = declared
        /\ (initLog.table_before.exists
               /\ initLog.table_before.columns = declared) =>
              (dbTable = initLog.table_before /\ dbRows = initLog.rows_before)
        /\ DOMAIN dbRows = DOMAIN initLog.rows_before
        /\ \A i \in DOMAIN dbRows :
              \A c \in initLog.table_before.columns :
                  dbRows[i][c] = initLog.rows_before[i][c]

-----------------------------------------------------------------------------
\* The position of a step in the trace of the invoke call, 0 when it was
\* not taken.
StepAt(step) ==
    IF \E j \in DOMAIN inv.trace : inv.trace[j] = step
    THEN CHOOSE j \in DOMAIN inv.trace : inv.trace[j] = step
    ELSE 0

\* C25: an unknown method name fails with ValueError before a connection
\* is opened or a token looked up; otherwise the connection is opened
\* first, the token lookup comes next, the validation after it, and the
\* method is called only after a validation that succeeded: an invalid
\* token or a validation error never runs the method.
C25_InvokeOrder ==
    /\ inv.method_name = "no_such_method" =>
          (inv.pc \in {"idle", "done"} /\ inv.trace = <<>>
             /\ (inv.pc = "done" => inv.raised = "ValueError"))
    /\ inv.trace # <<>> => inv.trace[1] = "connection_open"
    /\ StepAt("token_lookup") # 0 =>
          /\ StepAt("token_lookup") = 2
          /\ StepAt("validation") # 0 =>
                StepAt("token_lookup") < StepAt("validation")
    /\ StepAt("method") # 0 =>
          /\ StepAt("validation") # 0
          /\ StepAt("validation") < StepAt("method")
          /\ ~model_validate_raises(inv.params)
          /\ inv.raised \notin {"InvalidTokenError", "ValidationError"}
    /\ inv.raised \in {"InvalidTokenError", "ValidationError", "ValueError"} =>
          StepAt("method") = 0

\* A call with a tenant token and a JSON text for the dict parameter went
\* through all four steps and committed.
C25_Witness ==
    /\ inv.pc = "done"
    /\ inv.api_token = "tenant_token"
    /\ inv.trace = <<"connection_open", "token_lookup", "validation",
                     "method", "commit">>

-----------------------------------------------------------------------------
\* The position of the first event of a name in a trace, 0 when absent.
EvAt(trace, name) ==
    IF \E j \in DOMAIN trace : trace[j].ev = name
    THEN CHOOSE j \in DOMAIN trace :
            trace[j].ev = name /\ \A k \in 1..(j - 1) : trace[k].ev # name
    ELSE 0

BeforeName(kind) ==
    IF kind = "insert" THEN "on_inserting"
    ELSE IF kind = "update" THEN "on_updating" ELSE "on_deleting"

AfterName(kind) ==
    IF kind = "insert" THEN "on_inserted"
    ELSE IF kind = "update" THEN "on_updated" ELSE "on_deleted"

\* the rows an insert or update wrote
Written(o, rs) ==
    IF o.kind = "insert"
    THEN IF o.id = 0 THEN {new_pkey_value(rs)} ELSE {o.id}
    ELSE MatchingRows(rs, o.grp)

\* C26: in a non-raw Table.insert, Table.update or Table.delete the
\* before-trigger precedes the SQL and the after-trigger follows it; what a
\* mutating before-trigger made of the record is what the SQL stores; and
\* when a trigger (or anything else) raises, the connection context rolls
\* back and the committed rows are what they were.  A delete that finds
\* no row runs its SQL without a trigger.
C26_TriggersAroundStorage ==
    [][ (last_op'.kind \in {"insert", "update", "delete"} /\ ~last_op'.raw) =>
          LET t == last_op'.trace
              b == EvAt(t, BeforeName(last_op'.kind))
              s == EvAt(t, "sql")
              a == EvAt(t, AfterName(last_op'.kind))
          IN  /\ (b # 0 /\ s # 0) => b < s
              /\ a # 0 => (s # 0 /\ b # 0 /\ s < a)
              /\ (last_op'.kind \in {"insert", "update"} /\ s # 0) => b # 0
              /\ (last_op'.raised = "none" /\ last_op'.before = "mutate"
                    /\ last_op'.kind \in {"insert", "update"}) =>
                    \A i \in Written(last_op', table_rows) :
                        table_rows'[i].val = Stamp
              /\ last_op'.raised # "none" => table_rows' = table_rows
              /\ (last_op'.before = "raise" /\ b # 0) => (s = 0 /\ a = 0)
      ]_vars

\* An update whose before-trigger changed the record stored the changed
\* record, and its after-trigger ran.
C26_Witness ==
    /\ last_op.kind = "update" /\ ~last_op.raw /\ last_op.before = "mutate"
    /\ last_op.raised = "none" /\ last_op.result > 0
    /\ last_op.trace = <<Ev("on_updating", 0), Ev("sql", 0), Ev("on_updated", 0)>>
    /\ \E i \in TrigIds :
          table_rows[i].val = Stamp /\ table_rows[i].grp = last_op.grp

-----------------------------------------------------------------------------
\* The positions of an event in a trace.
EvPositions(trace, name, i) ==
    {j \in DOMAIN trace : trace[j] = Ev(name, i)}

QBeforeName(kind) ==
    IF kind = "query_update" THEN "on_updating" ELSE "on_deleting"

QAfterName(kind) ==
    IF kind = "query_update" THEN "on_updated" ELSE "on_deleted"

\* C27: Query.update and Query.delete in raw mode run one SQL statement
\* and no trigger; in default mode, when nothing raises, every row that
\* the WHERE matches (the rows raw mode affects) gets its before-trigger,
\* its own SQL statement and its after-trigger exactly once and in that
\* order, no other row is touched, and both modes report the same count.
C27_CompoundOperations ==
    [][ last_op'.kind \in {"query_update", "query_delete"} =>
          LET t == last_op'.trace
              M == MatchingRows(table_rows, last_op'.grp)
          IN  IF last_op'.raw
              THEN t = <<Ev("sql", 0)>> /\ last_op'.result = Cardinality(M)
              ELSE last_op'.raised = "none" =>
                     /\ last_op'.result = Cardinality(M)
                     /\ \A j \in DOMAIN t : t[j].id \in M
                     /\ \A i \in M :
                          \E b, s, a \in DOMAIN t :
                            /\ b < s /\ s < a
                            /\ EvPositions(t, QBeforeName(last_op'.kind), i) = {b}
                            /\ EvPositions(t, "sql", i) = {s}
                            /\ EvPositions(t, QAfterName(last_op'.kind), i) = {a}
      ]_vars

\* C30: a non-raw Table.delete whose triggers do not raise removes every
\* row its WHERE matches (the rows raw mode removes), returns their number,
\* and runs on_deleting before and on_deleted after the removal.
C30_DeleteEveryMatch ==
    [][ (last_op'.kind = "delete" /\ ~last_op'.raw
           /\ last_op'.raised # "TriggerError") =>
          LET M == MatchingRows(table_rows, last_op'.grp)
          IN  /\ last_op'.raised = "none"
              /\ table_rows' = db_delete(table_rows, last_op'.grp)
              /\ last_op'.result = Cardinality(M)
              /\ M # {} => last_op'.trace = <<Ev("on_deleting", 0),
                                             Ev("sql", 0), Ev("on_deleted", 0)>>
      ]_vars

-----------------------------------------------------------------------------
\* C28: stop and _stop_instance_process remove the PID file of an instance
\* only when its process no longer exists, on every path, those where a
\* signal is refused with a permission or OS error included.
C28_PidFileKeptWhileAlive ==
    [][ \A i \in Instances :
          (pid_file[i] /\ ~pid_file'[i]) => ~alive[i] ]_vars

-----------------------------------------------------------------------------
\* null, exactly "*", or sorted distinct non-empty codes joined by commas
\* with no "*" among them
Canonical(v) ==
    \/ v.type = "none"
    \/ /\ v.type = "str"
       /\ \/ v.s = <<"*">>
          \/ LET parts == str_split(v.s)
             IN  /\ \A j \in DOMAIN parts :
                       parts[j] # <<>> /\ parts[j] # <<"*">>
                 /\ \A j \in 1..(Len(parts) - 1) :
                       str_lt(parts[j], parts[j + 1])

\* C29: after every suspend_batch and activate_batch the stored value is
\* canonical; activate_batch with a code while the value is "*" is refused
\* and changes nothing; a code just suspended is reported suspended and a
\* code just activated is not, and is_batch_suspended answers by membership
\* in the stored list.
C29_SuspendedBatchesCanonical ==
    [][ LET t == batchCall'.tenant_id
            c == batchCall'.batch_code
            old == suspended_batches[t]
            new == suspended_batches'[t]
        IN  /\ \A u \in BatchTenants : Canonical(suspended_batches'[u])
            /\ (batchCall'.op = "activate_batch" /\ c.type # "none"
                  /\ old = StrV(<<"*">>)) =>
                  (~batchCall'.result /\ new = old)
            /\ (batchCall'.op = "suspend_batch" /\ c.type # "none") =>
                  is_batch_suspended(new, c)
            /\ (batchCall'.op = "activate_batch" /\ batchCall'.result
                  /\ c.type # "none") =>
                  ~is_batch_suspended(new, c)
            /\ (batchCall'.op = "is_batch_suspended" /\ c.type # "none"
                  /\ old.type = "str" /\ old.s # <<"*">>) =>
                  (batchCall'.result <=>
                     \E j \in DOMAIN str_split(old.s) :
                        str_split(old.s)[j] = c.s)
      ]_vars
=============================================================================
